---- MODULE Spec2Model ----
(***************************************************************************)
(* dosprobe: the socket-based backend (QemuBackend) with its single-lane   *)
(* executor, the capture pipeline, and the WebSocket broker with its       *)
(* memory watches.                                                         *)
(*                                                                         *)
(* The server is a single-threaded event loop.  A macrotask (a timer tick, *)
(* an incoming message, a socket response) runs to completion and then the *)
(* microtask queue is drained in FIFO order; `micro` is that queue, and    *)
(* every macrotask action is guarded by micro = <<>>.                      *)
(***************************************************************************)
EXTENDS Integers, Sequences, FiniteSets, TLC

(* ---------------------------- bounds ----------------------------------- *)
MaxOps == 3          \* primitives submitted to the backend in one run
MaxWatches == 2      \* watch registrations created in one run
MaxSelects == 2      \* backend-select requests handled in one run
MaxCalls == 2        \* HTTP requests handled beside the backend-selects
MaxCmds == 4         \* commands sent on the GdbClient in one run
MaxMsgs == 3         \* subscribe and unsubscribe messages handled in one run
MaxLen == 3          \* characters of an address string built from AddressChars
MaxBytes == 2        \* bytes of a golden or captured buffer
MaxRanges == 2       \* extra memory ranges of a capture request
MaxLength == 12289   \* the longest memory read requested of the GdbClient
MaxInterval == 250   \* the largest |intervalMs| a memory:watch message carries

(* ------------------------ program constants ---------------------------- *)
maxAttempts == 20    \* connectWithRetry
CHUNK_SIZE == 4096   \* GdbClient.readMemory
MIN_INTERVAL_MS == 200   \* memory-watch.ts

(* --------------------------- value sets -------------------------------- *)
Bytes == {0, 1}      \* contents of the watched guest memory range
Conns == {1, 2}      \* WebSocket connections
Active == {1}        \* the connection whose messages the specifications below deliver
WatchIds == {"w"}    \* client-chosen watch identifiers
CHANNELS == {"status", "debug", "memory", "capture"}
ChannelNames == {"status", "memory", "bogus"}   \* the channel names that messages carry
NoHash == <<>>       \* lastHash: null

VARIABLES
  \* QemuBackend
  qmp, gdb,          \* this.qmp / this.gdb !== null
  currentStatus,
  breakpoints,       \* ids in this.breakpoints
  nextBpId,
  operationQueue,    \* the op whose release promise is this.operationQueue (0: the initial resolved promise)
  released,          \* ops whose release() has been called (0 included)
  ops,               \* every runExclusive call so far, in submission order
  micro,             \* microtask queue
  events,            \* emitted snapshot events and load requests, in order
  gdbRecv,           \* parties with a request outstanding on the GdbClient
  mem,               \* guest memory under observation
  \* memory-watch.ts
  watches,           \* Map id -> registration (0: none)
  watchObj,          \* every Watch object ever created
  watchesSuspended,
  lastSent,          \* history: hash of each registration's latest memory:update since creation/invalidation
  fresh,             \* history: registrations that existed at the last loaded/load-failed and have not polled successfully since
  reads,             \* history: polls issued, each with whether its connection was open
  \* ws/index.ts
  open,              \* connection is open
  frames,            \* frames sent on each connection, in order
  \* CapturePipeline.run
  cap,
  \* QemuBackend lifecycle and the GDB stub
  stub,              \* addresses with a breakpoint registered at the GDB stub
  launcher,          \* this.launcher holds a live child
  life,              \* the launch / connectToRunning / shutdown call in progress
  \* the backend holder of createApp and POST /api/backend/select
  holder,            \* holder.backend (0: null)
  backends,          \* every backend object created so far; 1 is the QemuBackend above
  selects,           \* POST /api/backend/select requests
  responses,         \* history: HTTP responses sent
  stoppedBy,         \* history: the connection whose message stopped each registration (0: none)
  thrown,            \* history: message handlers of each connection that threw
  \* ChannelManager
  subscriptions,     \* Map channel -> Set of connections; its domain is the keys present
  received,          \* history: the subscribe and unsubscribe messages handled, in order
  \* one call of a function that keeps no state
  call,              \* the function and its arguments
  ret,               \* what it returned
  \* GdbClient
  buffer,            \* this.buffer: reply packets received and not yet parsed
  listeners,         \* socket.once('data', tryParse) listeners, in registration order
  recvs,             \* every recvPacket call so far
  taken,             \* history: packets parsed out of the buffer, with the receive that took them
  \* QmpClient
  qmpBuffer,         \* this.buffer: the objects received and not yet parsed, in order
  pendingResolves,   \* the execute calls waiting in waitForJson, in order
  executes,          \* every execute call so far
  emitted,           \* history: the objects emitted as 'event', in order
  parsed,            \* history: the objects parsed out of the buffer, in order
  \* WsManager (the browser's end of /ws)
  frameState,        \* this.frameState
  dispatched,        \* history: the dispatch calls, in order
  seen,              \* history: the frames received, in order
  \* DosboxSession
  sessions,          \* every launch({wait: true}) call so far
  \* GdbClient, byte by byte
  inbound,           \* bytes the stub has written that have not reached the client
  bytes,             \* this.buffer
  waiting,           \* socket.once('data', tryParse) listeners, in registration order
  receives,          \* every recvPacket call so far
  acks,              \* number of '+' written
  stubSent           \* history: the payloads of the packets the stub has written, in order

backendVars == <<qmp, gdb, currentStatus, breakpoints, nextBpId, operationQueue,
                 released, ops, micro, events, gdbRecv, mem>>
watchVars == <<watches, watchObj, watchesSuspended, lastSent, fresh, reads>>
wsVars == <<open, frames>>
lifeVars == <<stub, launcher, life>>
holderVars == <<holder, backends, selects, responses>>
gdbcVars == <<buffer, listeners, recvs, taken>>
pureVars == <<call, ret>>
channelVars == <<subscriptions, received>>
qmpcVars == <<qmpBuffer, pendingResolves, executes, emitted, parsed>>
wsmVars == <<frameState, dispatched, seen>>
streamVars == <<inbound, bytes, waiting, receives, acks, stubSent>>
clientVars == <<qmpcVars, wsmVars, sessions, streamVars>>
vars == <<backendVars, watchVars, wsVars, cap, lifeVars, holderVars, stoppedBy, thrown, gdbcVars, channelVars, pureVars, clientVars>>

(* ------------------------- QemuBackend --------------------------------- *)

Primitives == {"readMemory", "writeMemory", "readRegisters", "sendKeys", "screenshot",
               "setBreakpoint", "removeBreakpoint", "listBreakpoints", "pause", "resume",
               "step", "saveSnapshot", "loadSnapshot", "listSnapshots"}

\* which protocol client a primitive's body requires (requireGdb / requireQmp)
Client(kind) ==
  CASE kind \in {"readMemory", "writeMemory", "readRegisters", "setBreakpoint",
                 "removeBreakpoint", "pause", "resume", "step"} -> "gdb"
    [] kind \in {"sendKeys", "screenshot", "saveSnapshot", "loadSnapshot", "listSnapshots"} -> "qmp"
    [] OTHER -> "none"

\* number of awaited steps in a primitive's body
Rounds(kind, arg, bps) ==
  CASE kind \in {"listBreakpoints", "resume"} -> 0
    [] kind = "removeBreakpoint" -> IF arg \in bps THEN 1 ELSE 0
    [] kind \in {"step", "saveSnapshot", "loadSnapshot", "sendKeys"} -> 2
    [] OTHER -> 1

\* callers
Http == [t |-> "http", gen |-> 0, conn |-> 0, req |-> ""]
Poll(g) == [t |-> "poll", gen |-> g, conn |-> 0, req |-> ""]
WsReq(c, r) == [t |-> "ws", gen |-> 0, conn |-> c, req |-> r]
Capture == [t |-> "capture", gen |-> 0, conn |-> 0, req |-> ""]

StartJob(o) == [t |-> "start", op |-> o]
ContJob(o) == [t |-> "cont", op |-> o]

AwaitPreviousSkipped(previous, rel) == TRUE

\* runExclusive: `await previous` lets the caller on once previous has been released
AwaitPrevious(previous, rel) == previous \in rel

\* runExclusive up to `await previous`, called with microtask queue m
Submitted(kind, arg, owner) ==
  Append(ops, [kind |-> kind, arg |-> arg, owner |-> owner, prev |-> operationQueue,
               st |-> IF AwaitPrevious(operationQueue, released) THEN "ready" ELSE "waiting",
               round |-> 0, ok |-> FALSE, data |-> 0, backend |-> 1])

\* a call on a backend object other than the QemuBackend modelled above
Direct(b, kind, arg, owner) ==
  Append(ops, [kind |-> kind, arg |-> arg, owner |-> owner, prev |-> 0, st |-> "direct",
               round |-> 0, ok |-> FALSE, data |-> 0, backend |-> b])

SubmittedJobs(m) ==
  IF AwaitPrevious(operationQueue, released) THEN Append(m, StartJob(Len(ops) + 1)) ELSE m

\* runExclusive's finally: release() wakes the op awaiting this one, then the
\* caller's own continuation follows
WaitersAll(os, o) == {w \in DOMAIN os : os[w].st = "waiting"}

Waiters(os, o) == {w \in DOMAIN os : os[w].st = "waiting" /\ os[w].prev = o}

FinishedStuck(os, o, ok, d) ==
  [w \in DOMAIN os |->
     IF w = o THEN [os[w] EXCEPT !.st = "done", !.ok = ok, !.data = d]
     ELSE IF ok /\ w \in Waiters(os, o) THEN [os[w] EXCEPT !.st = "ready"]
     ELSE os[w]]

Finished(os, o, ok, d) ==
  [w \in DOMAIN os |->
     IF w = o THEN [os[w] EXCEPT !.st = "done", !.ok = ok, !.data = d]
     ELSE IF w \in Waiters(os, o) THEN [os[w] EXCEPT !.st = "ready"]
     ELSE os[w]]

Max(a, b) == IF a > b THEN a ELSE b

RECURSIVE SetToSeq(_)
SetToSeq(S) == IF S = {} THEN <<>>
               ELSE LET x == CHOOSE y \in S : \A z \in S : y <= z
                    IN <<x>> \o SetToSeq(S \ {x})

FinishedJobs(os, o, m) ==
  m \o [i \in 1..Cardinality(Waiters(os, o)) |-> StartJob(SetToSeq(Waiters(os, o))[i])]
    \o <<ContJob(o)>>

Ev(e, o) == [e |-> e, op |-> o]

LoadFailedEventsMissing(o) == <<>>

\* loadSnapshot's catch block
LoadFailedEvents(o) == <<Ev("snapshot:load-failed", o)>>

\* the `address` of the table entry this.breakpoints.get(id): the address that
\* the setBreakpoint call which created the entry was given
AddressOf(id) ==
  ops[CHOOSE o \in DOMAIN ops :
        ops[o].kind = "setBreakpoint" /\ ops[o].backend = 1 /\ ops[o].st = "done"
        /\ ops[o].ok /\ ops[o].data = id].arg

\* the stub's reply OK to `Z0,addr,1` and to `z0,addr,1`
StubInsert(registered, addr) == registered \cup {addr}
StubRemove(registered, addr) == registered \ {addr}

\* loadSnapshot before its first await
LoadingEvents(o) == <<Ev("snapshot:loading", o), Ev("loadvm", o)>>

(* ----------------------- memory-watch.ts ------------------------------- *)

sha256(d) == <<"sha256", d>>

invalidateNone(wo) == wo

\* invalidateAllWatches
invalidateAllWatches(wo) ==
  [g \in DOMAIN wo |-> IF watches[wo[g].id] = g THEN [wo[g] EXCEPT !.lastHash = NoHash] ELSE wo[g]]

\* history: the registrations a snapshot load invalidates have no latest update
Invalidated(ls) ==
  [g \in DOMAIN ls |-> IF watches[watchObj[g].id] = g THEN NoHash ELSE ls[g]]

(* ---------------------- capture-pipeline.ts ---------------------------- *)

\* capture requests: no snapshot, no keys, no extra ranges
CaptureRequests ==
  [breakpoint : BOOLEAN, captureFramebuffer : BOOLEAN,
   captureScreenshot : {FALSE}, captureRegisters : BOOLEAN]
NoRequest ==
  [breakpoint |-> FALSE, captureFramebuffer |-> FALSE,
   captureScreenshot |-> FALSE, captureRegisters |-> FALSE]

\* CapturePipeline.run: the stage that follows stage pc once its primitive returned
NextStage(pc, req) ==
  CASE pc = "setBreakpoint" -> "resume"
    [] pc = "resume" -> "waitForStop"
    [] pc = "waitForStop" -> "removeBreakpoint"
    [] pc \in {"removeBreakpoint", "pause"} ->
         IF req.captureFramebuffer THEN "framebuffer"
         ELSE IF req.captureScreenshot THEN "screenshot"
         ELSE IF req.captureRegisters THEN "registers"
         ELSE "finalResume"
    [] pc = "framebuffer" ->
         IF req.captureScreenshot THEN "screenshot"
         ELSE IF req.captureRegisters THEN "registers"
         ELSE "finalResume"
    [] pc = "screenshot" -> IF req.captureRegisters THEN "registers" ELSE "finalResume"
    [] pc = "registers" -> "finalResume"
    [] pc = "finalResume" -> "done"

\* the backend primitive a stage calls
StagePrimitive(pc) ==
  CASE pc = "framebuffer" -> "readMemory"
    [] pc = "registers" -> "readRegisters"
    [] pc = "finalResume" -> "resume"
    [] OTHER -> pc

(* ------------------------------ Init ----------------------------------- *)

InitBackend ==
  /\ qmp = TRUE /\ gdb = TRUE
  /\ currentStatus = "running"
  /\ breakpoints = {}
  /\ nextBpId = 1
  /\ operationQueue = 0
  /\ released = {0}
  /\ ops = <<>>
  /\ micro = <<>>
  /\ events = <<>>
  /\ gdbRecv = {}
  /\ mem = 0

InitWatch ==
  /\ watches = [i \in WatchIds |-> 0]
  /\ watchObj = <<>>
  /\ watchesSuspended = FALSE
  /\ lastSent = <<>>
  /\ fresh = {}
  /\ reads = <<>>

InitWs ==
  /\ open = [c \in Conns |-> TRUE]
  /\ frames = [c \in Conns |-> <<>>]

InitCapture == cap = [pc |-> "idle", bp |-> 0, req |-> NoRequest]

\* new Map()
NoSubscriptions == [ch \in {} |-> {}]

\* no function is being called
NoCall == [f |-> "none"]

Idle == [pc |-> "idle", attempt |-> 0, qmpPath |-> FALSE, quit |-> "none", by |-> 0,
         unconnected |-> {}]

\* serve.ts has connected a QemuBackend to a running QEMU and put it in the holder
InitLife ==
  /\ stub = {}
  /\ launcher = FALSE
  /\ life = Idle

InitHolder ==
  /\ holder = 1
  /\ backends = <<[type |-> "qemu", down |-> "no"]>>
  /\ selects = <<>>
  /\ responses = <<>>

InitGdbClient ==
  /\ buffer = <<>>
  /\ listeners = <<>>
  /\ recvs = <<>>
  /\ taken = <<>>

InitQmpClient ==
  /\ qmpBuffer = <<>>
  /\ pendingResolves = <<>>
  /\ executes = <<>>
  /\ emitted = <<>>
  /\ parsed = <<>>

\* no metadata, no payload
NoFrame == [f |-> "none", type |-> "", size |-> FALSE, n |-> 0]

InitWsManager ==
  /\ frameState = [phase |-> "IDLE", metadata |-> NoFrame]
  /\ dispatched = <<>>
  /\ seen = <<>>

InitStream ==
  /\ inbound = <<>>
  /\ bytes = <<>>
  /\ waiting = <<>>
  /\ receives = <<>>
  /\ acks = 0
  /\ stubSent = <<>>

InitServer ==
  /\ InitBackend /\ InitWatch /\ InitWs /\ InitCapture
  /\ InitLife /\ InitHolder /\ InitGdbClient
  /\ stoppedBy = <<>>
  /\ thrown = [c \in Conns |-> 0]
  /\ subscriptions = NoSubscriptions
  /\ received = <<>>
  /\ InitQmpClient
  /\ InitWsManager
  /\ sessions = <<>>
  /\ InitStream

Init == InitServer /\ call = NoCall /\ ret = NoCall

\* the server as it starts, about to make one of the given calls
Called(calls) == InitServer /\ call \in calls /\ ret = NoCall

(* --------------------- QemuBackend actions ----------------------------- *)

\* primitives submitted so far by callers other than the capture pipeline
Submissions == Cardinality({o \in DOMAIN ops : ops[o].owner.t # "capture"})

\* an HTTP route handler calls one primitive of the backend that the
\* middleware read from the holder
HttpCall(kind) ==
  /\ micro = <<>>
  /\ Submissions < MaxOps
  /\ holder # 0
  /\ \E arg \in (IF kind = "removeBreakpoint" THEN breakpoints \cup {0}
                 ELSE IF kind = "writeMemory" THEN Bytes ELSE {0}) :
       IF holder = 1
       THEN /\ ops' = Submitted(kind, arg, Http)
            /\ micro' = SubmittedJobs(micro)
            /\ operationQueue' = Len(ops) + 1
       ELSE /\ ops' = Direct(holder, kind, arg, Http)
            /\ UNCHANGED <<micro, operationQueue>>
  /\ UNCHANGED <<qmp, gdb, currentStatus, breakpoints, nextBpId, released, events, gdbRecv, mem>>
  /\ UNCHANGED <<watchVars, wsVars, cap>>
  /\ UNCHANGED <<lifeVars, holderVars, stoppedBy, thrown, gdbcVars, channelVars, pureVars, clientVars>>

\* the status with which a route answers when the middleware read null
NoBackendStatus(route) == IF route \in {"launch", "shutdown"} THEN 400 ELSE 503

\* an HTTP route handler finds no backend in the holder
HttpNoBackend(route) ==
  /\ micro = <<>>
  /\ Len(responses) < MaxOps
  /\ holder = 0
  /\ responses' = Append(responses, [route |-> route, code |-> NoBackendStatus(route), held |-> 0])
  /\ UNCHANGED <<backendVars, watchVars, wsVars, cap, lifeVars, holder, backends, selects,
                 stoppedBy, thrown, gdbcVars, channelVars, pureVars, clientVars>>

\* runExclusive after `await previous`: the operation body up to its first await
StartOperation ==
  /\ micro # <<>> /\ Head(micro).t = "start"
  /\ LET o == Head(micro).op
         k == ops[o].kind
         rest == Tail(micro)
         missing == \/ Client(k) = "gdb" /\ ~gdb
                    \/ Client(k) = "qmp" /\ ~qmp
         n == Rounds(k, ops[o].arg, breakpoints)
     IN IF missing \/ n = 0
        THEN \* requireGdb/requireQmp throws, or the body has no await
             /\ ops' = Finished(ops, o, ~missing, 0)
             /\ released' = released \cup {o}
             /\ micro' = FinishedJobs(ops, o, rest)
             /\ currentStatus' = IF ~missing /\ k = "resume" THEN "running" ELSE currentStatus
             /\ UNCHANGED <<events, gdbRecv, watchesSuspended>>
        ELSE /\ ops' = [ops EXCEPT ![o].st = "running", ![o].round = 1]
             /\ micro' = rest
             /\ gdbRecv' = IF Client(k) = "gdb" THEN gdbRecv \cup {o} ELSE gdbRecv
             /\ currentStatus' = IF k = "loadSnapshot" THEN "paused" ELSE currentStatus
             /\ events' = IF k = "loadSnapshot" THEN events \o LoadingEvents(o) ELSE events
             /\ watchesSuspended' = IF k = "loadSnapshot" THEN TRUE ELSE watchesSuspended
             /\ UNCHANGED released
  /\ UNCHANGED <<qmp, gdb, breakpoints, nextBpId, operationQueue, mem>>
  /\ UNCHANGED <<watches, watchObj, lastSent, fresh, reads, wsVars, cap>>
  /\ UNCHANGED <<lifeVars, holderVars, stoppedBy, thrown, gdbcVars, channelVars, pureVars, clientVars>>

\* a reply (ok) or an error reply / receive timeout (~ok) for the request the
\* running operation is awaiting
IoResponse(o, ok) ==
  /\ micro = <<>>
  /\ o \in DOMAIN ops /\ ops[o].st = "running"
  /\ LET k == ops[o].kind
         r == ops[o].round
         n == Rounds(k, ops[o].arg, breakpoints)
         last == (r = n)
     IN /\ Client(k) = "qmp" => qmp               \* a closed QMP socket never answers
        /\ (Client(k) = "gdb" /\ ok) => gdb
        /\ (k = "sendKeys" /\ r = 2) => ok         \* the inter-key sleep
        /\ IF ok /\ ~last
           THEN /\ ops' = [ops EXCEPT ![o].round = r + 1]
                /\ breakpoints' = IF k = "loadSnapshot" THEN {} ELSE breakpoints
                /\ IF k = "loadSnapshot" THEN mem' \in Bytes ELSE mem' = mem
                /\ events' = IF k = "loadSnapshot" THEN Append(events, Ev("response", o)) ELSE events
                /\ UNCHANGED <<released, micro, gdbRecv, currentStatus, nextBpId,
                               watchesSuspended, watchObj, lastSent, fresh, stub>>
           ELSE /\ ops' = Finished(ops, o, ok, IF k = "readMemory" THEN mem
                                           ELSE IF k = "setBreakpoint" THEN nextBpId ELSE 0)
                /\ released' = released \cup {o}
                /\ micro' = FinishedJobs(ops, o, micro)
                /\ gdbRecv' = gdbRecv \ {o}
                /\ breakpoints' = IF ~ok THEN breakpoints
                                  ELSE IF k = "setBreakpoint" THEN breakpoints \cup {nextBpId}
                                  ELSE IF k = "removeBreakpoint" THEN breakpoints \ {ops[o].arg}
                                  ELSE breakpoints
                /\ nextBpId' = IF ok /\ k = "setBreakpoint" THEN nextBpId + 1 ELSE nextBpId
                /\ stub' = IF ~ok THEN stub
                           ELSE IF k = "setBreakpoint" THEN StubInsert(stub, ops[o].arg)
                           ELSE IF k = "removeBreakpoint" THEN StubRemove(stub, AddressOf(ops[o].arg))
                           ELSE stub
                /\ currentStatus' = IF ~ok THEN currentStatus
                                    ELSE IF k = "pause" THEN "paused"
                                    ELSE IF k = "loadSnapshot" THEN "running"
                                    ELSE currentStatus
                /\ mem' = IF ok /\ k = "writeMemory" THEN ops[o].arg ELSE mem
                /\ events' = IF k # "loadSnapshot" THEN events
                             ELSE IF ok THEN events \o <<Ev("response", o), Ev("snapshot:loaded", o)>>
                             ELSE Append(events, Ev("response", o)) \o LoadFailedEvents(o)
                /\ IF k = "loadSnapshot" /\ (ok \/ LoadFailedEvents(o) # <<>>)
                   THEN /\ watchesSuspended' = FALSE
                        /\ watchObj' = invalidateAllWatches(watchObj)
                        /\ lastSent' = Invalidated(lastSent)
                        /\ fresh' = {g \in DOMAIN watchObj : watches[watchObj[g].id] = g}
                   ELSE UNCHANGED <<watchesSuspended, watchObj, lastSent, fresh>>
  /\ UNCHANGED <<qmp, gdb, operationQueue>>
  /\ UNCHANGED <<watches, reads, wsVars, cap>>
  /\ UNCHANGED <<launcher, life, holderVars, stoppedBy, thrown, gdbcVars, channelVars, pureVars, clientVars>>

\* the HTTP handler resumes after its awaited primitive
HttpContinuation ==
  /\ micro # <<>> /\ Head(micro).t = "cont" /\ ops[Head(micro).op].owner.t = "http"
  /\ micro' = Tail(micro)
  /\ LET o == Head(micro).op
     IN responses' = Append(responses, [route |-> ops[o].kind,
                                        code |-> IF ops[o].ok THEN 200 ELSE 500,
                                        held |-> ops[o].backend])
  /\ UNCHANGED <<qmp, gdb, currentStatus, breakpoints, nextBpId, operationQueue, released,
                 ops, events, gdbRecv, mem>>
  /\ UNCHANGED <<watchVars, wsVars, cap>>
  /\ UNCHANGED <<lifeVars, holder, backends, selects, stoppedBy, thrown, gdbcVars, channelVars, pureVars, clientVars>>

\* QemuBackend.disconnect
Disconnect ==
  /\ micro = <<>>
  /\ qmp \/ gdb \/ currentStatus # "disconnected"
  /\ qmp' = FALSE /\ gdb' = FALSE
  /\ currentStatus' = "disconnected"
  /\ life' = [life EXCEPT !.unconnected = {}]
  /\ UNCHANGED <<breakpoints, nextBpId, operationQueue, released, ops, micro, events, gdbRecv, mem>>
  /\ UNCHANGED <<watchVars, wsVars, cap>>
  /\ UNCHANGED <<stub, launcher, holderVars, stoppedBy, thrown, gdbcVars, channelVars, pureVars, clientVars>>

(* ----------------- backends made by the factory ------------------------ *)

\* DosboxBackend: the primitives whose body is a throw, and those whose body
\* is empty or returns a constant
DosboxThrows == {"writeMemory", "screenshot", "setBreakpoint", "step", "saveSnapshot",
                 "loadSnapshot"}
DosboxReturns == {"removeBreakpoint", "listBreakpoints", "pause", "resume"}

\* whether a primitive of a backend the factory made can return (ok) or throw
\* (~ok): a DosboxBackend as its body says, with the primitives that run a
\* DOSBox-X session going either way; a QemuBackend that was never launched
\* fails requireGdb / requireQmp
Settles(type, kind, ok) ==
  IF type = "dosbox"
  THEN (kind \in DosboxThrows => ~ok) /\ (kind \in DosboxReturns => ok)
  ELSE ok <=> (kind = "listBreakpoints")

\* a primitive called on a backend the factory made returns or throws
DirectReturn(o, ok) ==
  /\ micro = <<>>
  /\ o \in DOMAIN ops /\ ops[o].st = "direct"
  /\ Settles(backends[ops[o].backend].type, ops[o].kind, ok)
  /\ ops' = [ops EXCEPT ![o].st = "done", ![o].ok = ok]
  /\ micro' = <<ContJob(o)>>
  /\ UNCHANGED <<qmp, gdb, currentStatus, breakpoints, nextBpId, operationQueue, released,
                 events, gdbRecv, mem>>
  /\ UNCHANGED <<watchVars, wsVars, cap, lifeVars, holderVars, stoppedBy, thrown, gdbcVars, channelVars, pureVars, clientVars>>

(* ------------------- QemuBackend lifecycle actions --------------------- *)

\* what no lifecycle action below touches
LifeFrame ==
  /\ UNCHANGED <<breakpoints, nextBpId, operationQueue, released, ops, micro, events, gdbRecv, mem>>
  /\ UNCHANGED <<watchVars, wsVars, cap, stub, holder, selects, responses, stoppedBy, thrown, gdbcVars, channelVars, pureVars, clientVars>>

\* launch(config) up to `await this.launcher.launch(...)`; withQmp: config.qmpSocketPath is set
Launch(withQmp) ==
  /\ micro = <<>>
  /\ life.pc = "idle"
  /\ currentStatus' = "launching"
  /\ launcher' = TRUE
  /\ life' = [life EXCEPT !.pc = "spawn", !.qmpPath = withQmp]
  /\ UNCHANGED <<qmp, gdb, backends>>
  /\ LifeFrame

\* the launcher has spawned the child (ok) or failed to, and launch throws
LaunchSpawned(ok) ==
  /\ micro = <<>>
  /\ life.pc = "spawn"
  /\ launcher' = ok
  /\ life' = IF ~ok THEN [life EXCEPT !.pc = "idle"]
             ELSE [life EXCEPT !.pc = IF life.qmpPath THEN "qmp" ELSE "gdb", !.attempt = 1]
  /\ UNCHANGED <<qmp, gdb, currentStatus, backends>>
  /\ LifeFrame

\* connectWithRetry: one attempt of the factory resolves (ok) or rejects
ConnectAttempt(ok) ==
  /\ micro = <<>>
  /\ life.pc \in {"qmp", "gdb"}
  /\ IF ok /\ life.pc = "qmp"
     THEN /\ qmp' = TRUE
          /\ life' = [life EXCEPT !.pc = "gdb", !.attempt = 1, !.unconnected = @ \ {"qmp"}]
          /\ UNCHANGED <<gdb, currentStatus>>
     ELSE IF ok
     THEN /\ gdb' = TRUE
          /\ currentStatus' = "running"
          /\ life' = [life EXCEPT !.pc = "idle", !.attempt = 0, !.unconnected = @ \ {"gdb"}]
          /\ UNCHANGED qmp
     ELSE /\ life' = IF life.attempt = maxAttempts
                     THEN [life EXCEPT !.pc = "idle", !.attempt = 0]
                     ELSE [life EXCEPT !.attempt = @ + 1]
          /\ UNCHANGED <<qmp, gdb, currentStatus>>
  /\ UNCHANGED <<launcher, backends>>
  /\ LifeFrame

\* connectToRunning up to `await this.qmp.connect()`
ConnectToRunning ==
  /\ micro = <<>>
  /\ life.pc = "idle"
  /\ qmp' = TRUE
  /\ life' = [life EXCEPT !.pc = "connect-qmp", !.unconnected = @ \cup {"qmp"}]
  /\ UNCHANGED <<gdb, currentStatus, launcher, backends>>
  /\ LifeFrame

\* connectToRunning after one of its two awaited connects settles
ConnectSettled(ok) ==
  /\ micro = <<>>
  /\ life.pc \in {"connect-qmp", "connect-gdb"}
  /\ IF ~ok
     THEN /\ life' = [life EXCEPT !.pc = "idle"]
          /\ UNCHANGED <<gdb, currentStatus>>
     ELSE IF life.pc = "connect-qmp"
     THEN /\ gdb' = TRUE
          /\ life' = [life EXCEPT !.pc = "connect-gdb",
                                  !.unconnected = (@ \ {"qmp"}) \cup {"gdb"}]
          /\ UNCHANGED currentStatus
     ELSE /\ currentStatus' = "running"
          /\ life' = [life EXCEPT !.pc = "idle", !.unconnected = @ \ {"gdb"}]
          /\ UNCHANGED gdb
  /\ UNCHANGED <<qmp, launcher, backends>>
  /\ LifeFrame

\* disconnect() followed by launcher?.kill(), as shutdown runs them
Closed(b) == [b EXCEPT ![1].down = "finished"]

\* shutdown up to `await this.qmp.quit()`, or all of it when there is no QMP
\* client; called by DELETE /api/launch or by a CLI command
Shutdown ==
  /\ micro = <<>>
  /\ IF qmp
     THEN /\ life.quit = "none"
          /\ life' = [life EXCEPT !.quit = "caller"]
          /\ backends' = [backends EXCEPT ![1].down = "started"]
          /\ UNCHANGED <<qmp, gdb, currentStatus, launcher>>
     ELSE /\ currentStatus # "disconnected" \/ launcher
          /\ qmp' = FALSE /\ gdb' = FALSE
          /\ currentStatus' = "disconnected"
          /\ launcher' = FALSE
          /\ life' = [life EXCEPT !.unconnected = {}]
          /\ backends' = Closed(backends)
  /\ UNCHANGED <<holder, selects, responses>>
  /\ UNCHANGED <<breakpoints, nextBpId, operationQueue, released, ops, micro, events, gdbRecv, mem>>
  /\ UNCHANGED <<watchVars, wsVars, cap, stub, stoppedBy, thrown, gdbcVars, channelVars, pureVars, clientVars>>

(* ------------------- POST /api/backend/select -------------------------- *)

SelectAwaitsNever(old) == FALSE

\* whether `await holder.backend.shutdown()` has to wait for a reply
SelectAwaits(old) == old = 1 /\ qmp

\* the backends after the factory returned a new one of the given kind
Created(bs, kind) == Append(bs, [type |-> kind, down |-> "no"])

Select(kind, old, pc, down, got) ==
  [kind |-> kind, old |-> old, pc |-> pc, downAtFactory |-> down, got |-> got]

\* the route handler from `holder.setBackend(null)` on: the factory is called
\* and returns a backend (made) or throws; bs is the backends at that moment
SelectFactory(s, kind, old, bs, made) ==
  /\ backends' = IF made THEN Created(bs, kind) ELSE bs
  /\ holder' = IF made THEN Len(bs) + 1 ELSE IF old # 0 THEN 0 ELSE holder
  /\ selects' = [i \in 1..Max(s, Len(selects)) |->
                   IF i = s
                   THEN Select(kind, old, IF made THEN "done" ELSE "failed",
                               IF old = 0 THEN "none" ELSE bs[old].down,
                               IF made THEN Len(bs) + 1 ELSE 0)
                   ELSE selects[i]]
  /\ responses' = Append(responses, [route |-> "select", code |-> IF made THEN 200 ELSE 500,
                                     held |-> old])

\* POST /api/backend/select with a valid kind, up to its first await that has
\* to wait; when nothing has to wait the handler runs through to its response
SelectStart(kind, made) ==
  /\ micro = <<>>
  /\ Len(selects) < MaxSelects
  /\ LET s == Len(selects) + 1
         old == holder
     IN IF SelectAwaits(old)
        THEN /\ made
             /\ selects' = Append(selects, Select(kind, old, "shutdown", "none", 0))
             /\ IF life.quit = "none"
                THEN /\ life' = [life EXCEPT !.quit = "select", !.by = s]
                     /\ backends' = [backends EXCEPT ![1].down = "started"]
                ELSE UNCHANGED <<life, backends>>
             /\ UNCHANGED <<qmp, gdb, currentStatus, launcher, holder, responses>>
        ELSE IF old = 1 /\ qmp
        THEN \* shutdown() is left running
             /\ life' = [life EXCEPT !.quit = "caller"]
             /\ SelectFactory(s, kind, old, [backends EXCEPT ![1].down = "started"], made)
             /\ UNCHANGED <<qmp, gdb, currentStatus, launcher>>
        ELSE IF old = 1
        THEN /\ qmp' = FALSE /\ gdb' = FALSE
             /\ currentStatus' = "disconnected"
             /\ launcher' = FALSE
             /\ life' = [life EXCEPT !.unconnected = {}]
             /\ SelectFactory(s, kind, old, Closed(backends), made)
        ELSE /\ SelectFactory(s, kind, old,
                              IF old = 0 THEN backends
                              ELSE [backends EXCEPT ![old].down = "finished"], made)
             /\ UNCHANGED <<qmp, gdb, currentStatus, launcher, life>>
  /\ UNCHANGED <<breakpoints, nextBpId, operationQueue, released, ops, micro, events, gdbRecv, mem>>
  /\ UNCHANGED <<watchVars, wsVars, cap, stub, stoppedBy, thrown, gdbcVars, channelVars, pureVars, clientVars>>

\* the quit request is answered or fails; shutdown goes on either way to
\* disconnect() and launcher?.kill(), and a select handler that awaited it
\* goes on to the factory
ShutdownFinish(made) ==
  /\ micro = <<>>
  /\ life.quit # "none"
  /\ qmp                                    \* a closed QMP socket never answers
  /\ qmp' = FALSE /\ gdb' = FALSE
  /\ currentStatus' = "disconnected"
  /\ launcher' = FALSE
  /\ life' = [life EXCEPT !.quit = "none", !.by = 0, !.unconnected = {}]
  /\ IF life.quit = "select"
     THEN SelectFactory(life.by, selects[life.by].kind, selects[life.by].old,
                        Closed(backends), made)
     ELSE /\ made
          /\ backends' = Closed(backends)
          /\ UNCHANGED <<holder, selects, responses>>
  /\ UNCHANGED <<breakpoints, nextBpId, operationQueue, released, ops, micro, events, gdbRecv, mem>>
  /\ UNCHANGED <<watchVars, wsVars, cap, stub, stoppedBy, thrown, gdbcVars, channelVars, pureVars, clientVars>>

\* a select handler that called shutdown() while an earlier quit was still
\* unanswered sent a quit of its own; QEMU answered it before the socket was
\* closed, so its shutdown() goes on through disconnect() and kill(), which
\* find nothing left to close, and the handler goes on to the factory
SelectResumes(s, made) ==
  /\ micro = <<>>
  /\ s \in DOMAIN selects /\ selects[s].pc = "shutdown"
  /\ life.by # s
  /\ backends[selects[s].old].down = "finished"
  /\ SelectFactory(s, selects[s].kind, selects[s].old, backends, made)
  /\ UNCHANGED <<qmp, gdb, currentStatus, launcher, life>>
  /\ UNCHANGED <<breakpoints, nextBpId, operationQueue, released, ops, micro, events, gdbRecv, mem>>
  /\ UNCHANGED <<watchVars, wsVars, cap, stub, stoppedBy, thrown, gdbcVars, channelVars, pureVars, clientVars>>

(* ------------------- memory-watch.ts actions --------------------------- *)

\* stopMemoryWatch: clearInterval and delete the registration, if any
stopMemoryWatch(wo, id) ==
  [g \in DOMAIN wo |-> IF watches[id] = g THEN [wo[g] EXCEPT !.timer = FALSE] ELSE wo[g]]

\* history: connection c's message stops the registration held under id
Stopped(sb, id, c) == [g \in DOMAIN sb |-> IF watches[id] = g THEN c ELSE sb[g]]

Json(type, g, d) == [f |-> "json", type |-> type, gen |-> g, data |-> d]
Binary(g, d) == [f |-> "binary", type |-> "", gen |-> g, data |-> d]

PollReportsAlways(hash, lastHash) == TRUE

\* the poll's `hash !== watch.lastHash`
PollReports(hash, lastHash) == hash # lastHash

\* the two ws.send calls of a reporting poll
UpdateFrames(g, d) == <<Json("memory:update", g, sha256(d)), Binary(g, d)>>

\* 'memory:watch' message: startMemoryWatch(backend, ws, id, ...)
WsMemoryWatch(c, id) ==
  /\ micro = <<>>
  /\ open[c]
  /\ Len(watchObj) < MaxWatches
  /\ holder # 0
  /\ watchObj' = Append(stopMemoryWatch(watchObj, id),
                        [id |-> id, conn |-> c, lastHash |-> NoHash, inFlight |-> FALSE,
                         timer |-> TRUE, backend |-> holder])
  /\ watches' = [watches EXCEPT ![id] = Len(watchObj) + 1]
  /\ lastSent' = Append(lastSent, NoHash)
  /\ stoppedBy' = Append(Stopped(stoppedBy, id, c), 0)
  /\ UNCHANGED <<watchesSuspended, fresh, reads, backendVars, wsVars, cap>>
  /\ UNCHANGED <<lifeVars, holderVars, thrown, gdbcVars, channelVars, pureVars, clientVars>>

\* 'memory:unwatch' message: stopMemoryWatch(id)
WsMemoryUnwatch(c, id) ==
  /\ micro = <<>>
  /\ open[c]
  /\ watches[id] # 0
  /\ watchObj' = stopMemoryWatch(watchObj, id)
  /\ watches' = [watches EXCEPT ![id] = 0]
  /\ stoppedBy' = Stopped(stoppedBy, id, c)
  /\ UNCHANGED <<watchesSuspended, lastSent, fresh, reads, backendVars, wsVars, cap>>
  /\ UNCHANGED <<lifeVars, holderVars, thrown, gdbcVars, channelVars, pureVars, clientVars>>

\* the setInterval callback of registration g, up to `await backend.readMemory`
TimerTick(g) ==
  /\ micro = <<>>
  /\ g \in DOMAIN watchObj /\ watchObj[g].timer
  /\ LET w == watches[watchObj[g].id]
     IN /\ w # 0 /\ ~watchObj[w].inFlight /\ ~watchesSuspended
        /\ Submissions < MaxOps
        /\ watchObj' = [watchObj EXCEPT ![w].inFlight = TRUE]
        /\ IF watchObj[g].backend = 1
           THEN /\ ops' = Submitted("readMemory", 0, Poll(w))
                /\ micro' = SubmittedJobs(micro)
                /\ operationQueue' = Len(ops) + 1
           ELSE /\ ops' = Direct(watchObj[g].backend, "readMemory", 0, Poll(w))
                /\ UNCHANGED <<micro, operationQueue>>
        /\ reads' = Append(reads, [gen |-> w, open |-> open[watchObj[w].conn],
                                   backend |-> watchObj[g].backend, held |-> holder])
  /\ UNCHANGED <<qmp, gdb, currentStatus, breakpoints, nextBpId, released, events, gdbRecv, mem>>
  /\ UNCHANGED <<watches, watchesSuspended, lastSent, fresh, wsVars, cap>>
  /\ UNCHANGED <<lifeVars, holderVars, stoppedBy, thrown, gdbcVars, channelVars, pureVars, clientVars>>

\* the setInterval callback after `await backend.readMemory`: try / catch / finally
PollContinuation ==
  /\ micro # <<>> /\ Head(micro).t = "cont" /\ ops[Head(micro).op].owner.t = "poll"
  /\ LET o == Head(micro).op
         g == ops[o].owner.gen
         hash == sha256(ops[o].data)
         report == ops[o].ok /\ PollReports(hash, watchObj[g].lastHash)
         after == watches[watchObj[g].id]
         hashed == IF report THEN [watchObj EXCEPT ![g].lastHash = hash] ELSE watchObj
     IN /\ watchObj' = IF after # 0 THEN [hashed EXCEPT ![after].inFlight = FALSE] ELSE hashed
        /\ frames' = IF report
                     THEN [frames EXCEPT ![watchObj[g].conn] = @ \o UpdateFrames(g, ops[o].data)]
                     ELSE frames
        /\ lastSent' = IF frames' # frames
                       THEN [lastSent EXCEPT ![g] = frames'[watchObj[g].conn][Len(frames'[watchObj[g].conn]) - 1].data]
                       ELSE lastSent
        /\ fresh' = IF ops[o].ok THEN fresh \ {g} ELSE fresh
  /\ micro' = Tail(micro)
  /\ UNCHANGED <<qmp, gdb, currentStatus, breakpoints, nextBpId, operationQueue, released,
                 ops, events, gdbRecv, mem>>
  /\ UNCHANGED <<watches, watchesSuspended, reads, open, cap>>
  /\ UNCHANGED <<lifeVars, holderVars, stoppedBy, thrown, gdbcVars, channelVars, pureVars, clientVars>>

\* the guest program changes the watched bytes
GuestWrite ==
  /\ micro = <<>>
  /\ mem' \in Bytes \ {mem}
  /\ UNCHANGED <<qmp, gdb, currentStatus, breakpoints, nextBpId, operationQueue, released,
                 ops, micro, events, gdbRecv>>
  /\ UNCHANGED <<watchVars, wsVars, cap>>
  /\ UNCHANGED <<lifeVars, holderVars, stoppedBy, thrown, gdbcVars, channelVars, pureVars, clientVars>>

(* ----------------------- ws/index.ts actions --------------------------- *)

OneShot == {"memory:read", "registers:read", "screenshot:take"}

PrimitiveOf(req) ==
  CASE req = "memory:read" -> "readMemory"
    [] req = "registers:read" -> "readRegisters"
    [] req = "screenshot:take" -> "screenshot"

ReplyFramesUnpaired(req, ok, d) ==
  IF ~ok THEN <<Json("error", 0, 0)>>
  ELSE IF req = "memory:read" THEN <<Json("memory:data", 0, 0), Binary(0, d)>>
  ELSE IF req = "registers:read" THEN <<Json("registers:data", 0, d)>>
  ELSE <<Json("screenshot:data", 0, 0)>>

\* what a one-shot handler sends after its awaited primitive
ReplyFrames(req, ok, d) ==
  IF ~ok THEN <<Json("error", 0, 0)>>
  ELSE IF req = "memory:read" THEN <<Json("memory:data", 0, 0), Binary(0, d)>>
  ELSE IF req = "registers:read" THEN <<Json("registers:data", 0, d)>>
  ELSE <<Json("screenshot:data", 0, 0), Binary(0, d)>>

\* 'memory:read' / 'registers:read' / 'screenshot:take' message, up to the await
WsRequest(c, req) ==
  /\ micro = <<>>
  /\ open[c]
  /\ Submissions < MaxOps
  /\ holder # 0
  /\ IF holder = 1
     THEN /\ ops' = Submitted(PrimitiveOf(req), 0, WsReq(c, req))
          /\ micro' = SubmittedJobs(micro)
          /\ operationQueue' = Len(ops) + 1
     ELSE /\ ops' = Direct(holder, PrimitiveOf(req), 0, WsReq(c, req))
          /\ UNCHANGED <<micro, operationQueue>>
  /\ UNCHANGED <<qmp, gdb, currentStatus, breakpoints, nextBpId, released, events, gdbRecv, mem>>
  /\ UNCHANGED <<watchVars, wsVars, cap>>
  /\ UNCHANGED <<lifeVars, holderVars, stoppedBy, thrown, gdbcVars, channelVars, pureVars, clientVars>>

\* the one-shot handler after its await (and its catch)
WsContinuation ==
  /\ micro # <<>> /\ Head(micro).t = "cont" /\ ops[Head(micro).op].owner.t = "ws"
  /\ LET o == Head(micro).op
         c == ops[o].owner.conn
     IN frames' = [frames EXCEPT ![c] = @ \o ReplyFrames(ops[o].owner.req, ops[o].ok, ops[o].data)]
  /\ micro' = Tail(micro)
  /\ UNCHANGED <<qmp, gdb, currentStatus, breakpoints, nextBpId, operationQueue, released,
                 ops, events, gdbRecv, mem>>
  /\ UNCHANGED <<watchVars, open, cap>>
  /\ thrown' = IF ops[Head(micro).op].ok THEN thrown
               ELSE [thrown EXCEPT ![ops[Head(micro).op].owner.conn] = @ + 1]
  /\ UNCHANGED <<lifeVars, holderVars, stoppedBy, gdbcVars, channelVars, pureVars, clientVars>>

\* what JSON.parse makes of a text frame that is no request object
Parsed(raw) == IF raw = "null" THEN "null" ELSE "SyntaxError"

\* the frames the message handler sends for such a text frame: `Invalid JSON`
\* when JSON.parse throws; when it returns null, `msg.type` throws inside the
\* try and `'requestId' in msg` throws inside the catch, before its ws.send
MalformedFrames(raw) ==
  IF Parsed(raw) = "SyntaxError" THEN <<Json("error", 0, 0)>> ELSE <<>>

\* a text frame that is no request object arrives on connection c
WsMalformed(c, raw) ==
  /\ micro = <<>>
  /\ open[c]
  /\ thrown[c] < MaxOps
  /\ thrown' = [thrown EXCEPT ![c] = @ + 1]
  /\ frames' = [frames EXCEPT ![c] = @ \o MalformedFrames(raw)]
  /\ UNCHANGED <<backendVars, watchVars, open, cap, lifeVars, holderVars, stoppedBy, gdbcVars, channelVars, pureVars, clientVars>>

\* ChannelManager.subscribe
subscribe(subs, c, ch) ==
  IF ch \in DOMAIN subs THEN [subs EXCEPT ![ch] = @ \cup {c}]
  ELSE (ch :> {c}) @@ subs

unsubscribeCreating(subs, c, ch) ==
  IF ch \in DOMAIN subs THEN [subs EXCEPT ![ch] = @ \ {c}]
  ELSE (ch :> {}) @@ subs

\* ChannelManager.unsubscribe
unsubscribe(subs, c, ch) ==
  IF ch \in DOMAIN subs THEN [subs EXCEPT ![ch] = @ \ {c}] ELSE subs

\* the message {type: 'subscribe', channel: ch} arrives on connection c
WsSubscribe(c, ch) ==
  /\ micro = <<>>
  /\ open[c]
  /\ Len(received) < MaxMsgs
  /\ received' = Append(received, [type |-> "subscribe", conn |-> c, channel |-> ch])
  /\ subscriptions' = IF ch \in CHANNELS THEN subscribe(subscriptions, c, ch) ELSE subscriptions
  /\ UNCHANGED <<backendVars, watchVars, wsVars, cap, lifeVars, holderVars, stoppedBy, thrown,
                 gdbcVars, pureVars, clientVars>>

\* the message {type: 'unsubscribe', channel: ch} arrives on connection c
WsUnsubscribe(c, ch) ==
  /\ micro = <<>>
  /\ open[c]
  /\ Len(received) < MaxMsgs
  /\ received' = Append(received, [type |-> "unsubscribe", conn |-> c, channel |-> ch])
  /\ subscriptions' = unsubscribe(subscriptions, c, ch)
  /\ UNCHANGED <<backendVars, watchVars, wsVars, cap, lifeVars, holderVars, stoppedBy, thrown,
                 gdbcVars, pureVars, clientVars>>

\* ChannelManager.removeClient
removeClient(subs, c) == [ch \in DOMAIN subs |-> subs[ch] \ {c}]

\* ws.on('close'): channels.removeClient(ws)
Close(c) ==
  /\ micro = <<>>
  /\ open[c]
  /\ open' = [open EXCEPT ![c] = FALSE]
  /\ subscriptions' = removeClient(subscriptions, c)
  /\ UNCHANGED <<backendVars, watchVars, frames, cap>>
  /\ UNCHANGED <<lifeVars, holderVars, stoppedBy, thrown, gdbcVars, received, pureVars, clientVars>>

(* -------------------- CapturePipeline.run actions ---------------------- *)

\* POST /api/captures: backend.capture(request) up to the first await
CaptureStart(req) ==
  /\ micro = <<>>
  /\ cap.pc = "idle"
  /\ LET first == IF req.breakpoint THEN "setBreakpoint" ELSE "pause"
     IN /\ cap' = [pc |-> first, bp |-> 0, req |-> req]
        /\ ops' = Submitted(first, 0, Capture)
        /\ micro' = SubmittedJobs(micro)
        /\ operationQueue' = Len(ops) + 1
  /\ UNCHANGED <<qmp, gdb, currentStatus, breakpoints, nextBpId, released, events, gdbRecv, mem>>
  /\ UNCHANGED <<watchVars, wsVars>>
  /\ UNCHANGED <<lifeVars, holderVars, stoppedBy, thrown, gdbcVars, channelVars, pureVars, clientVars>>

\* run() resumes after an awaited primitive: it throws if the primitive threw,
\* otherwise goes on to the next stage
CaptureContinuation ==
  /\ micro # <<>> /\ Head(micro).t = "cont" /\ ops[Head(micro).op].owner.t = "capture"
  /\ LET o == Head(micro).op
         next == NextStage(cap.pc, cap.req)
         bp == IF cap.pc = "setBreakpoint" THEN ops[o].data ELSE cap.bp
     IN IF ~ops[o].ok \/ (next = "waitForStop" /\ ~gdb)
        THEN /\ cap' = [cap EXCEPT !.pc = "failed"]
             /\ micro' = Tail(micro)
             /\ UNCHANGED <<ops, operationQueue, gdbRecv>>
        ELSE IF next = "waitForStop"
        THEN \* gdb.waitForStop is called on the client directly
             /\ cap' = [cap EXCEPT !.pc = next]
             /\ gdbRecv' = gdbRecv \cup {0}
             /\ micro' = Tail(micro)
             /\ UNCHANGED <<ops, operationQueue>>
        ELSE IF next = "done"
        THEN /\ cap' = [cap EXCEPT !.pc = next]
             /\ micro' = Tail(micro)
             /\ UNCHANGED <<ops, operationQueue, gdbRecv>>
        ELSE /\ cap' = [cap EXCEPT !.pc = next, !.bp = bp]
             /\ ops' = Submitted(StagePrimitive(next), 0, Capture)
             /\ micro' = SubmittedJobs(Tail(micro))
             /\ operationQueue' = Len(ops) + 1
             /\ UNCHANGED gdbRecv
  /\ UNCHANGED <<qmp, gdb, currentStatus, breakpoints, nextBpId, released, events, mem>>
  /\ UNCHANGED <<watchVars, wsVars>>
  /\ UNCHANGED <<lifeVars, holderVars, stoppedBy, thrown, gdbcVars, channelVars, pureVars, clientVars>>

\* the stop packet arrives (ok) or the wait times out (~ok); run() goes on to
\* removeBreakpoint or throws
CaptureStop(ok) ==
  /\ micro = <<>>
  /\ cap.pc = "waitForStop"
  /\ ok => gdb
  /\ gdbRecv' = gdbRecv \ {0}
  /\ IF ok
     THEN /\ cap' = [cap EXCEPT !.pc = "removeBreakpoint"]
          /\ ops' = Submitted("removeBreakpoint", cap.bp, Capture)
          /\ micro' = SubmittedJobs(micro)
          /\ operationQueue' = Len(ops) + 1
     ELSE /\ cap' = [cap EXCEPT !.pc = "failed"]
          /\ UNCHANGED <<ops, micro, operationQueue>>
  /\ UNCHANGED <<qmp, gdb, currentStatus, breakpoints, nextBpId, released, events, mem>>
  /\ UNCHANGED <<watchVars, wsVars>>
  /\ UNCHANGED <<lifeVars, holderVars, stoppedBy, thrown, gdbcVars, channelVars, pureVars, clientVars>>

(* ---------------- the lane on its own: any primitives ------------------ *)

NextLane ==
  \/ \E k \in Primitives : HttpCall(k)
  \/ StartOperation
  \/ \E o \in DOMAIN ops, ok \in BOOLEAN : IoResponse(o, ok)
  \/ HttpContinuation
  \/ Disconnect

SpecLane == Init /\ [][NextLane]_vars

(* ------------------------- the lane's claims --------------------------- *)

Running == {o \in DOMAIN ops : ops[o].st = "running"}

\* C1: on the socket-based backend at most one primitive's operation body is
\* executing at any time, whatever primitives are submitted and however their
\* callers interleave.
AtMostOneBody == Cardinality(Running) <= 1

\* a body is executing while a later primitive waits for its turn
AtMostOneBodyWitness ==
  \E o \in DOMAIN ops, w \in DOMAIN ops : ops[o].st = "running" /\ ops[w].st = "waiting"

\* C2: primitives start and complete in submission order: once a primitive's body
\* has started, the body of every primitive submitted before it has finished.
SubmissionOrder ==
  \A b \in DOMAIN ops : ops[b].st \in {"running", "done"} =>
     \A a \in 1..(b - 1) : ops[a].st = "done"

\* the third of three queued primitives is executing after the first two finished
SubmissionOrderWitness ==
  /\ Len(ops) >= 3
  /\ ops[3].st = "running" /\ ops[3].prev = 2 /\ ops[2].prev = 1
  /\ ops[2].round > 0

EventIdx(e, o) == {i \in DOMAIN events : events[i] = Ev(e, o)}
Terminal(i) == events[i].e \in {"snapshot:loaded", "snapshot:load-failed"}
\* snapshot:loading events not yet answered by loaded/load-failed before position i
Unmatched(i) ==
  Cardinality({j \in 1..(i - 1) : events[j].e = "snapshot:loading"})
    - Cardinality({j \in 1..(i - 1) : Terminal(j)})

\* C4: a loadSnapshot that gets its turn with QMP connected emits snapshot:loading
\* before the load request is sent; after the machine-control response it emits
\* exactly one of snapshot:loaded (success) or snapshot:load-failed (failure, before
\* the caller sees the error); and neither is emitted without a preceding unmatched
\* snapshot:loading.
SnapshotLoadEvents ==
  /\ \A i \in DOMAIN events : events[i].e = "loadvm" =>
        \E j \in 1..(i - 1) : events[j] = Ev("snapshot:loading", events[i].op)
  /\ \A i \in DOMAIN events : Terminal(i) =>
        /\ Unmatched(i) = 1
        /\ i > 1 /\ events[i - 1] = Ev("response", events[i].op)
  /\ \A o \in DOMAIN ops : (ops[o].kind = "loadSnapshot" /\ ops[o].st = "running") =>
        EventIdx("snapshot:loading", o) # {}
  /\ \A o \in DOMAIN ops :
        (ops[o].kind = "loadSnapshot" /\ ops[o].st = "done" /\ EventIdx("snapshot:loading", o) # {}) =>
          /\ Cardinality(EventIdx("snapshot:loaded", o)) = (IF ops[o].ok THEN 1 ELSE 0)
          /\ Cardinality(EventIdx("snapshot:load-failed", o)) = (IF ops[o].ok THEN 0 ELSE 1)

\* one load has succeeded and a later one has failed after its request was sent
SnapshotLoadEventsWitness ==
  \E a \in DOMAIN ops, b \in DOMAIN ops :
     /\ a < b
     /\ ops[a].kind = "loadSnapshot" /\ ops[a].st = "done" /\ ops[a].ok
     /\ ops[b].kind = "loadSnapshot" /\ ops[b].st = "done" /\ ~ops[b].ok
     /\ EventIdx("loadvm", b) # {}

(* ------------- the broker: watches and snapshot loads ----------------- *)

NextWatch ==
  \/ \E c \in Active, id \in WatchIds : WsMemoryWatch(c, id)
  \/ \E c \in Active, id \in WatchIds : WsMemoryUnwatch(c, id)
  \/ \E g \in 1..MaxWatches : TimerTick(g)
  \/ PollContinuation
  \/ GuestWrite
  \/ \E c \in Active : Close(c)
  \/ HttpCall("loadSnapshot")
  \/ HttpContinuation
  \/ StartOperation
  \/ \E o \in DOMAIN ops, ok \in BOOLEAN : IoResponse(o, ok)

SpecWatch == Init /\ [][NextWatch]_vars

(* ------------- the broker: watches and one-shot requests --------------- *)

NextFrames ==
  \/ \E c \in Active, id \in WatchIds : WsMemoryWatch(c, id)
  \/ \E g \in 1..MaxWatches : TimerTick(g)
  \/ PollContinuation
  \/ GuestWrite
  \/ \E c \in Active, req \in OneShot : WsRequest(c, req)
  \/ WsContinuation
  \/ StartOperation
  \/ \E o \in DOMAIN ops, ok \in BOOLEAN : IoResponse(o, ok)

SpecFrames == Init /\ [][NextFrames]_vars

(* ------------- a capture run beside a memory watch --------------------- *)

NextCapture ==
  \/ \E req \in CaptureRequests : CaptureStart(req)
  \/ CaptureContinuation
  \/ \E ok \in BOOLEAN : CaptureStop(ok)
  \/ \E c \in Active, id \in WatchIds : WsMemoryWatch(c, id)
  \/ \E g \in 1..MaxWatches : TimerTick(g)
  \/ PollContinuation
  \/ StartOperation
  \/ \E o \in DOMAIN ops, ok \in BOOLEAN : IoResponse(o, ok)

SpecCapture == Init /\ [][NextCapture]_vars

(* ------------------------ the capture's claim -------------------------- *)

\* C3: at no time are two requests outstanding on the GdbClient: while a capture
\* run waits for the stop packet of its breakpoint, no primitive of another caller
\* sends on or receives from the remote-debug client.
OneRequestPerClient == Cardinality(gdbRecv) <= 1

(* ------------------------ the broker's claims -------------------------- *)

UpdateIdx(fs) == {i \in DOMAIN fs : fs[i].f = "json" /\ fs[i].type = "memory:update"}
LoadInProgress == Unmatched(Len(events) + 1) = 1
ContPending(o) == \E i \in DOMAIN micro : micro[i] = ContJob(o)
Outstanding(o) == ops[o].st # "done" \/ ContPending(o)
\* the poll of registration g whose continuation is the next microtask
PollResuming(g) ==
  /\ micro # <<>> /\ Head(micro).t = "cont"
  /\ ops[Head(micro).op].owner = Poll(g)

\* C5: between snapshot:loading and the following snapshot:loaded or
\* snapshot:load-failed no memory:update is sent for any watch, not even for a
\* poll that was in flight when snapshot:loading was emitted.
NoUpdateDuringLoad ==
  [][LoadInProgress =>
       \A c \in Conns : Cardinality(UpdateIdx(frames'[c])) = Cardinality(UpdateIdx(frames[c]))]_vars

\* C6: after snapshot:loaded or snapshot:load-failed, for every watch existing at
\* that moment, the first poll that then completes successfully sends a
\* memory:update with the bytes read, even when they equal the bytes last reported.
FirstPollAfterLoadReports ==
  [][\A g \in DOMAIN watchObj :
       (g \in fresh /\ PollResuming(g) /\ ops[Head(micro).op].ok) =>
          frames'[watchObj[g].conn] =
            frames[watchObj[g].conn]
              \o <<Json("memory:update", g, sha256(ops[Head(micro).op].data)),
                   Binary(g, ops[Head(micro).op].data)>>]_vars

\* after a load the same registration has reported the same bytes twice in a row
FirstPollAfterLoadReportsWitness ==
  /\ \E j \in DOMAIN events : Terminal(j)
  /\ \E c \in Conns : \E i \in DOMAIN frames[c] :
       /\ i + 2 \in DOMAIN frames[c]
       /\ frames[c][i].type = "memory:update"
       /\ frames[c][i + 2] = frames[c][i]

\* C7: for every watch id at most one poll is outstanding at any time (a tick
\* that fires while a poll for the id is outstanding issues no read), also when
\* the watch for the id is replaced while its poll is outstanding.
OnePollPerWatchId ==
  \A id \in WatchIds :
     Cardinality({o \in DOMAIN ops : /\ ops[o].owner.t = "poll"
                                     /\ watchObj[ops[o].owner.gen].id = id
                                     /\ Outstanding(o)}) <= 1

\* C8: a successfully completed poll sends a memory:update if and only if the hash
\* of the bytes read differs from the hash carried by the watch's most recent
\* memory:update, or none was sent since the watch was created or invalidated by a
\* snapshot load; a failed poll sends nothing and leaves the remembered hash as is.
ReportsIffHashChanged ==
  [][\A g \in DOMAIN watchObj : PollResuming(g) =>
       LET o == Head(micro).op
           c == watchObj[g].conn
           update == <<Json("memory:update", g, sha256(ops[o].data)), Binary(g, ops[o].data)>>
       IN IF ops[o].ok
          THEN IF sha256(ops[o].data) # lastSent[g]
               THEN frames'[c] = frames[c] \o update
               ELSE frames' = frames
          ELSE /\ frames' = frames
               /\ watchObj'[g].lastHash = watchObj[g].lastHash]_vars

\* a poll has completed successfully without reporting, after an earlier report
ReportsIffHashChangedWitness ==
  \E g \in DOMAIN watchObj :
     /\ lastSent[g] # NoHash
     /\ Cardinality({o \in DOMAIN ops : ops[o].owner = Poll(g) /\ ops[o].st = "done"
                                        /\ ops[o].ok /\ ~ContPending(o)})
          > Cardinality({i \in UpdateIdx(frames[watchObj[g].conn]) :
                           frames[watchObj[g].conn][i].gen = g})

\* C9: when a WebSocket connection closes, every watch created through it is torn
\* down: its timer is cancelled, and afterwards no backend read is issued on behalf
\* of any of those watches.
WatchesTornDownOnClose ==
  /\ \A g \in DOMAIN watchObj : ~open[watchObj[g].conn] => ~watchObj[g].timer
  /\ \A i \in DOMAIN reads : reads[i].open

BinaryBearing == {"memory:update", "memory:data", "screenshot:data"}

\* C10: on each connection every JSON frame of type memory:update, memory:data or
\* screenshot:data is immediately followed by exactly one binary frame carrying
\* that message's payload, and no binary frame is sent that is not so preceded.
FramePairing ==
  \A c \in Conns : \A i \in DOMAIN frames[c] :
     LET fr == frames[c][i]
     IN /\ (fr.f = "json" /\ fr.type \in BinaryBearing) =>
             /\ i + 1 \in DOMAIN frames[c]
             /\ frames[c][i + 1].f = "binary"
             /\ frames[c][i + 1].gen = fr.gen
             /\ fr.type = "memory:update" => fr.data = sha256(frames[c][i + 1].data)
        /\ fr.f = "binary" =>
             /\ i > 1
             /\ frames[c][i - 1].f = "json"
             /\ frames[c][i - 1].type \in BinaryBearing

\* one connection has received a watch update, a memory:data reply and a
\* screenshot:data reply, each with its binary frame
FramePairingWitness ==
  \E c \in Conns :
     /\ \E i \in DOMAIN frames[c] : frames[c][i].type = "memory:update"
     /\ \E i \in DOMAIN frames[c] : frames[c][i].type = "memory:data"
     /\ \E i \in DOMAIN frames[c] : frames[c][i].type = "screenshot:data"

(* ------------- breakpoints: the table and the GDB stub ----------------- *)

NextBreak ==
  \/ \E k \in {"setBreakpoint", "removeBreakpoint", "loadSnapshot"} : HttpCall(k)
  \/ StartOperation
  \/ \E o \in DOMAIN ops, ok \in BOOLEAN : IoResponse(o, ok)
  \/ HttpContinuation

SpecBreak == Init /\ [][NextBreak]_vars

\* the addresses in this.breakpoints
TableAddresses == {AddressOf(id) : id \in breakpoints}

Quiescent == \A o \in DOMAIN ops : ops[o].st = "done"

\* C11: whenever no primitive is queued or running, the addresses in the
\* backend's breakpoint table are exactly the addresses registered at the GDB
\* stub (inserted with Z0 and not removed with z0 since)
BreakpointTableMatchesStub == Quiescent => TableAddresses = stub

(* ------------------- the lifecycle of a QemuBackend -------------------- *)

NextLife ==
  \/ \E withQmp \in BOOLEAN : Launch(withQmp)
  \/ \E ok \in BOOLEAN : LaunchSpawned(ok)
  \/ \E ok \in BOOLEAN : ConnectAttempt(ok)
  \/ ConnectToRunning
  \/ \E ok \in BOOLEAN : ConnectSettled(ok)
  \/ Disconnect
  \/ Shutdown
  \/ ShutdownFinish(TRUE)

SpecLife == Init /\ [][NextLife]_vars

\* the client object exists and its connect() has resolved
Up(client) ==
  /\ IF client = "qmp" THEN qmp ELSE gdb
  /\ client \notin life.unconnected

\* C12: the status is running or paused only with both clients connected,
\* disconnected only with neither, and error whenever exactly one is
StatusMatchesClients ==
  /\ currentStatus \in {"running", "paused"} => Up("qmp") /\ Up("gdb")
  /\ currentStatus = "disconnected" => ~Up("qmp") /\ ~Up("gdb")
  /\ (Up("qmp") # Up("gdb")) => currentStatus = "error"

(* ------------- the holder, backend-select and the broker --------------- *)

\* the routes and primitives exercised beside backend-select
HolderKinds == {"resume", "step"}
HolderRoutes == {"launch", "pause"}

\* HTTP requests for a backend resource handled so far
Calls ==
  Len(ops) + Cardinality({i \in DOMAIN responses :
                            responses[i].held = 0 /\ responses[i].route # "select"})

NextHolder ==
  \/ \E kind \in {"qemu", "dosbox"}, made \in BOOLEAN : SelectStart(kind, made)
  \/ \E made \in BOOLEAN : ShutdownFinish(made)
  \/ \E s \in 1..MaxSelects, made \in BOOLEAN : SelectResumes(s, made)
  \/ Shutdown
  \/ \E k \in HolderKinds : Calls < MaxCalls /\ HttpCall(k)
  \/ \E route \in HolderRoutes : Calls < MaxCalls /\ HttpNoBackend(route)
  \/ HttpContinuation
  \/ StartOperation
  \/ \E o \in DOMAIN ops, ok \in BOOLEAN : IoResponse(o, ok)
  \/ \E o \in DOMAIN ops, ok \in BOOLEAN : DirectReturn(o, ok)

SpecHolder == Init /\ [][NextHolder]_vars

\* memory watches across a backend-select
NextReseat ==
  \/ \E kind \in {"qemu", "dosbox"}, made \in BOOLEAN : SelectStart(kind, made)
  \/ \E made \in BOOLEAN : ShutdownFinish(made)
  \/ \E c \in Active, id \in WatchIds : WsMemoryWatch(c, id)
  \/ \E g \in 1..MaxWatches : TimerTick(g)
  \/ PollContinuation
  \/ StartOperation
  \/ \E o \in DOMAIN ops, ok \in BOOLEAN : IoResponse(o, ok)
  \/ \E o \in DOMAIN ops, ok \in BOOLEAN : DirectReturn(o, ok)

SpecReseat == Init /\ [][NextReseat]_vars

\* select request s sends its success response in this step
Completes(s) ==
  /\ s \in DOMAIN selects' /\ selects'[s].pc = "done"
  /\ s \in DOMAIN selects => selects[s].pc # "done"

\* C13: a backend-select that succeeds called the factory only after the
\* shutdown attempt of the backend it found in the holder had finished, leaves
\* in the holder exactly the new backend the factory returned, and the holder
\* changes in no step other than one of a backend-select request
SelectReseats ==
  [][/\ \A s \in DOMAIN selects' :
          Completes(s) =>
            /\ selects'[s].old # 0 => selects'[s].downAtFactory = "finished"
            /\ holder' = selects'[s].got
            /\ holder' \notin DOMAIN backends
            /\ backends'[holder'].type = selects'[s].kind
     /\ holder' # holder => selects' # selects]_vars

\* two selects have succeeded: the first awaited the quit of the connected
\* QemuBackend, the second replaced the backend the first one made
SelectReseatsWitness ==
  /\ Len(selects) = 2
  /\ selects[1].pc = "done" /\ selects[1].old = 1 /\ selects[1].downAtFactory = "finished"
  /\ selects[2].pc = "done" /\ selects[2].old = selects[1].got
  /\ holder = selects[2].got

\* C14: every poll a memory watch issues goes to the backend that is in the
\* holder at that moment
IssuedAgainstHolder == \A i \in DOMAIN reads : reads[i].backend = reads[i].held

\* C17: on a DosboxBackend, every call of writeMemory, screenshot,
\* setBreakpoint, removeBreakpoint, listBreakpoints, pause, resume, step,
\* saveSnapshot or loadSnapshot that has settled has thrown
SessionBackendRefuses ==
  \A o \in DOMAIN ops :
    (/\ ops[o].st = "done"
     /\ backends[ops[o].backend].type = "dosbox"
     /\ ops[o].kind \in {"writeMemory", "screenshot", "setBreakpoint", "removeBreakpoint",
                         "listBreakpoints", "pause", "resume", "step", "saveSnapshot",
                         "loadSnapshot"})
    => ~ops[o].ok

\* C18: a request for a backend resource that is handled while the holder is
\* empty is answered 503
NoBackendAnswers503 ==
  \A i \in DOMAIN responses :
    (responses[i].held = 0 /\ responses[i].route # "select") => responses[i].code = 503

(* --------------------------- GdbClient --------------------------------- *)

\* the client's receive state that a run of tryParse works on
GdbState(b, ls, rs, tk) == [buffer |-> b, listeners |-> ls, recvs |-> rs, taken |-> tk]

\* recvPacket's tryParse for receive r: with no complete packet in the buffer
\* it registers itself for the next 'data' event; otherwise it consumes the
\* first packet, acknowledges it and calls resolve, which has no effect on a
\* promise that the timer already rejected
tryParse(g, r) ==
  IF g.buffer = <<>>
  THEN [g EXCEPT !.listeners = Append(@, r)]
  ELSE [g EXCEPT !.buffer = Tail(@),
                 !.taken = Append(@, [packet |-> Head(g.buffer), by |-> r,
                                      stale |-> g.recvs[r].st = "timedout"]),
                 !.recvs[r] = IF @.st = "pending"
                              THEN [st |-> "resolved", got |-> Head(g.buffer)] ELSE @]

\* a 'data' event calls the once-listeners in the order they were registered
RECURSIVE Emit(_, _)
Emit(ls, g) == IF ls = <<>> THEN g ELSE Emit(Tail(ls), tryParse(g, Head(ls)))

\* the reply packets that have reached the client
Arrived == {buffer[i] : i \in DOMAIN buffer} \cup {taken[i].packet : i \in DOMAIN taken}

GdbFrame ==
  UNCHANGED <<backendVars, watchVars, wsVars, cap, lifeVars, holderVars, stoppedBy, thrown,
              channelVars, pureVars, clientVars>>

GdbApply(g) ==
  /\ buffer' = g.buffer
  /\ listeners' = g.listeners
  /\ recvs' = g.recvs
  /\ taken' = g.taken

\* command(cmd) or continueExecution + waitForStop: the packet is sent and
\* recvPacket runs tryParse once; the backend's lane admits one at a time
GdbCommand ==
  /\ Len(recvs) < MaxCmds
  /\ \A r \in DOMAIN recvs : recvs[r].st # "pending"
  /\ GdbApply(tryParse(GdbState(buffer, listeners,
                                Append(recvs, [st |-> "pending", got |-> 0]), taken),
                       Len(recvs) + 1))
  /\ GdbFrame

\* the timer of receive r fires: reject(new TimeoutError(...)); the listener
\* that tryParse registered stays on the socket
GdbTimeout(r) ==
  /\ recvs[r].st = "pending"
  /\ recvs' = [recvs EXCEPT ![r].st = "timedout"]
  /\ UNCHANGED <<buffer, listeners, taken>>
  /\ GdbFrame

\* the stub's reply to command n arrives, after its replies to the commands
\* before n if it sends them at all: the 'data' listener of connect() appends
\* it to the buffer, then the once-listeners run
GdbData(n) ==
  /\ n \in DOMAIN recvs /\ n \notin Arrived
  /\ \A m \in (n + 1)..Len(recvs) : m \notin Arrived
  /\ GdbApply(Emit(listeners, GdbState(Append(buffer, n), <<>>, recvs, taken)))
  /\ GdbFrame

NextGdb ==
  \/ GdbCommand
  \/ \E r \in DOMAIN recvs : GdbTimeout(r)
  \/ \E n \in DOMAIN recvs : GdbData(n)

SpecGdb == Init /\ [][NextGdb]_vars

\* C16: every packet is consumed by the receive of the command it answers,
\* and never by a receive that had already timed out
StaleReceiveTakesNothing ==
  \A i \in DOMAIN taken : ~taken[i].stale /\ taken[i].packet = taken[i].by

(* ------------- two connections and one watch id ----------------------- *)

NextOwner ==
  \/ \E c \in Conns, id \in WatchIds : WsMemoryWatch(c, id)
  \/ \E c \in Conns, id \in WatchIds : WsMemoryUnwatch(c, id)
  \/ \E g \in 1..MaxWatches : TimerTick(g)
  \/ PollContinuation
  \/ StartOperation
  \/ \E o \in DOMAIN ops, ok \in BOOLEAN : IoResponse(o, ok)

SpecOwner == Init /\ [][NextOwner]_vars

\* C15: a registration is stopped or replaced only by a message that arrived
\* on the connection that created it
StoppedOnlyByOwner ==
  \A g \in DOMAIN stoppedBy : stoppedBy[g] \in {0, watchObj[g].conn}

(* ------------- message handlers that throw ----------------------------- *)

NextErrors ==
  \/ \E c \in Active, req \in OneShot : WsRequest(c, req)
  \/ WsContinuation
  \/ \E c \in Active, raw \in {"{", "null"} : WsMalformed(c, raw)
  \/ StartOperation
  \/ \E o \in DOMAIN ops, ok \in BOOLEAN : IoResponse(o, ok)

SpecErrors == Init /\ [][NextErrors]_vars

ErrorIdx(fs) == {i \in DOMAIN fs : fs[i].f = "json" /\ fs[i].type = "error"}

\* C19: each connection has been sent exactly one error frame for every one
\* of its messages whose handling threw
OneErrorFramePerThrow ==
  \A c \in Conns : Cardinality(ErrorIdx(frames[c])) = thrown[c]

(* ------------- a primitive that throws --------------------------------- *)

\* the step in which primitive o of the QemuBackend throws
Throws(o) ==
  /\ ops[o].backend = 1 /\ ops[o].st # "done"
  /\ ops'[o].st = "done" /\ ~ops'[o].ok

\* C20: the step in which a primitive of the QemuBackend throws closes no
\* client, kills no child, does not set the status to disconnected, releases
\* the lane and schedules the start of the primitive queued behind it
FailureKeepsBackendUp ==
  [][\A o \in DOMAIN ops : Throws(o) =>
        /\ qmp' = qmp /\ gdb' = gdb /\ launcher' = launcher
        /\ currentStatus' = "disconnected" => currentStatus = "disconnected"
        /\ o \in released'
        /\ \A w \in DOMAIN ops : (ops[w].st = "waiting" /\ ops[w].prev = o) =>
              /\ ops'[w].st = "ready"
              /\ \E i \in DOMAIN micro' : micro'[i] = StartJob(w)]_vars

\* a primitive threw while both clients were connected and the primitive
\* queued behind it has run and returned
FailureKeepsBackendUpWitness ==
  /\ qmp /\ gdb /\ currentStatus # "disconnected"
  /\ \E o, w \in DOMAIN ops :
       /\ ops[o].st = "done" /\ ~ops[o].ok /\ ops[o].round > 0
       /\ ops[w].prev = o /\ ops[w].st = "done" /\ ops[w].ok /\ ops[w].round > 0

(* ------------------------ ChannelManager ------------------------------- *)

NextChannels ==
  \/ \E c \in Conns, ch \in ChannelNames : WsSubscribe(c, ch)
  \/ \E c \in Conns, ch \in ChannelNames : WsUnsubscribe(c, ch)
  \/ \E c \in Conns : Close(c)

SpecChannels == Init /\ [][NextChannels]_vars

Subscribed(c, ch) == ch \in DOMAIN subscriptions /\ c \in subscriptions[ch]

\* the message handled in this step
Message == received'[Len(received')]

\* C29: an unsubscribe for a channel the connection is not subscribed to
\* leaves the subscription map as it was, and a subscribe or unsubscribe that
\* names a channel outside CHANNELS leaves the map as it was and sends nothing
UnsubscribeIdempotent ==
  [][received' # received =>
       /\ (Message.type = "unsubscribe" /\ ~Subscribed(Message.conn, Message.channel))
             => subscriptions' = subscriptions
       /\ Message.channel \notin CHANNELS
             => subscriptions' = subscriptions /\ frames' = frames]_vars

\* after a subscription was made, an unsubscribe of a connection that is not
\* subscribed and a message naming an unknown channel have both been handled
UnsubscribeIdempotentWitness ==
  /\ subscriptions # NoSubscriptions
  /\ \E i, j \in DOMAIN received :
       /\ received[i].type = "unsubscribe" /\ received[i].channel \in CHANNELS
       /\ \A k \in 1..(i - 1) :
             ~(received[k].type = "subscribe" /\ received[k].conn = received[i].conn
               /\ received[k].channel = received[i].channel)
       /\ received[j].channel \notin CHANNELS

(* --------------------- the status channel ------------------------------ *)

NextStatus ==
  \/ \E c \in Active : WsSubscribe(c, "status")
  \/ \E c \in Active : WsUnsubscribe(c, "status")
  \/ \E k \in {"pause", "resume", "loadSnapshot"} : HttpCall(k)
  \/ StartOperation
  \/ \E o \in DOMAIN ops, ok \in BOOLEAN : IoResponse(o, ok)
  \/ HttpContinuation
  \/ Disconnect

SpecStatus == Init /\ [][NextStatus]_vars

\* C21: a step that changes the backend's status or emits a snapshot-load
\* event appends a frame to every open connection subscribed to `status`
StatusDelivered ==
  [][(currentStatus' # currentStatus \/ events' # events) =>
        \A c \in Conns : (open[c] /\ Subscribed(c, "status")) =>
            Len(frames'[c]) > Len(frames[c])]_vars

(* ----------------------------- address.ts ------------------------------ *)

\* strings are sequences of one-character strings; numbers are records that
\* say whether they are NaN. Every number below is less than 2^31, where
\* ToInt32 changes nothing but NaN.
Num(n) == [nan |-> FALSE, v |-> n]
NaN == [nan |-> TRUE, v |-> 0]

\* ToInt32, the conversion that &, << and >> apply to their operands
ToInt32(x) == IF x.nan THEN 0 ELSE x.v

DecimalChars == {"0", "1", "2", "3", "4", "5", "6", "7", "8", "9"}
HexChars == DecimalChars \cup {"a", "b", "c", "d", "e", "f", "A", "B", "C", "D", "E", "F"}

DigitValue(ch) ==
  CASE ch = "0" -> 0 [] ch = "1" -> 1 [] ch = "2" -> 2 [] ch = "3" -> 3 [] ch = "4" -> 4
    [] ch = "5" -> 5 [] ch = "6" -> 6 [] ch = "7" -> 7 [] ch = "8" -> 8 [] ch = "9" -> 9
    [] ch \in {"a", "A"} -> 10 [] ch \in {"b", "B"} -> 11 [] ch \in {"c", "C"} -> 12
    [] ch \in {"d", "D"} -> 13 [] ch \in {"e", "E"} -> 14 [] ch \in {"f", "F"} -> 15

RadixChars(radix) == IF radix = 16 THEN HexChars ELSE DecimalChars

\* the value of the longest prefix of str made of digits of the radix
RECURSIVE DigitsPrefix(_, _, _)
DigitsPrefix(str, radix, acc) ==
  IF str = <<>> \/ Head(str) \notin RadixChars(radix) THEN acc
  ELSE DigitsPrefix(Tail(str), radix, acc * radix + DigitValue(Head(str)))

StartsWith0x(str) == Len(str) >= 2 /\ str[1] = "0" /\ str[2] \in {"x", "X"}

\* parseInt(str, radix) for a string without leading white space or sign: a 0x
\* prefix is skipped when the radix is 16, the digits that follow are read up
\* to the first character that is no digit, and no digit at all gives NaN
parseInt(str, radix) ==
  LET body == IF radix = 16 /\ StartsWith0x(str) THEN SubSeq(str, 3, Len(str)) ELSE str
  IN IF body = <<>> \/ Head(body) \notin RadixChars(radix) THEN NaN
     ELSE Num(DigitsPrefix(body, radix, 0))

segOffToLinear(seg, off) == ((ToInt32(seg) % 65536) * 16) + (ToInt32(off) % 65536)

linearToSegOff(linear) ==
  [segment |-> Num((ToInt32(linear) \div 16) % 65536), offset |-> Num(ToInt32(linear) % 16)]

\* input.split(':'): the part before the first colon and the part after it
RECURSIVE UpToColon(_)
UpToColon(str) ==
  IF str = <<>> \/ Head(str) = ":" THEN <<>> ELSE <<Head(str)>> \o UpToColon(Tail(str))

AfterColon(str) == SubSeq(str, Len(UpToColon(str)) + 2, Len(str))

Includes(str, ch) == \E i \in DOMAIN str : str[i] = ch

parseAddress(input) ==
  IF Includes(input, ":")
  THEN LET segment == parseInt(UpToColon(input), 16)
           offset == parseInt(UpToColon(AfterColon(input)), 16)
       IN [linear |-> Num(segOffToLinear(segment, offset)),
           segOff |-> [segment |-> segment, offset |-> offset]]
  ELSE LET linear == IF StartsWith0x(input) THEN parseInt(input, 16) ELSE parseInt(input, 10)
       IN [linear |-> linear, segOff |-> linearToSegOff(linear)]

HexChar(d) == <<"0", "1", "2", "3", "4", "5", "6", "7", "8", "9",
                "A", "B", "C", "D", "E", "F">>[d + 1]

\* n.toString(16).toUpperCase()
RECURSIVE ToHex(_)
ToHex(n) == IF n < 16 THEN <<HexChar(n)>> ELSE ToHex(n \div 16) \o <<HexChar(n % 16)>>

RECURSIVE PadStart(_, _)
PadStart(str, len) == IF Len(str) >= len THEN str ELSE PadStart(<<"0">> \o str, len)

formatSegOff(seg, off) == PadStart(ToHex(seg), 4) \o <<":">> \o PadStart(ToHex(off), 4)

\* the three forms of an address literal
AllIn(str, chars) == \A i \in DOMAIN str : str[i] \in chars
IsSegOff(str) ==
  /\ Includes(str, ":")
  /\ Len(UpToColon(str)) \in 1..4 /\ Len(AfterColon(str)) \in 1..4
  /\ AllIn(UpToColon(str), HexChars) /\ AllIn(AfterColon(str), HexChars)
IsHex(str) == StartsWith0x(str) /\ Len(str) >= 3 /\ AllIn(SubSeq(str, 3, Len(str)), HexChars)
IsDecimal(str) == Len(str) >= 1 /\ AllIn(str, DecimalChars)
IsAddress(str) == IsSegOff(str) \/ IsHex(str) \/ IsDecimal(str)

\* the address strings that requests carry
AddressChars == {"0", "9", "F", "x", ":", "g"}
Strings(n) == UNION {[1..k -> AddressChars] : k \in 1..n}
Words == {0, 1, 15, 16, 2748, 65535}
Literals ==
  { <<"0", "x", "F", "F", "F", "F", "F">>, <<"0", "x", "1", "0", "0", "0", "0", "0">>,
    <<"0", "X", "1", "0", "F", "F", "E", "F">>, <<"1", "0", "4", "8", "5", "7", "6">>,
    <<"6", "5", "5", "3", "6">> }
AddressInputs ==
  Strings(MaxLen) \cup Literals \cup {formatSegOff(s, o) : s \in Words, o \in Words}

\* GET /memory/:address/:size with a backend in the holder: parseAddress
\* returns for every string, so the handler goes on to backend.readMemory
MemoryRoute ==
  /\ call.f = "GET /memory" /\ ret = NoCall
  /\ holder # 0
  /\ ret' = [f |-> "readMemory", address |-> parseAddress(call.address)]
  /\ UNCHANGED <<backendVars, watchVars, wsVars, cap, lifeVars, holderVars, stoppedBy, thrown,
                 gdbcVars, channelVars, call, clientVars>>

NextAddress == MemoryRoute

SpecAddress ==
  Called({[f |-> "GET /memory", address |-> a] : a \in AddressInputs}) /\ [][NextAddress]_vars

\* C25: a request whose address matches none of the three forms is answered
\* 400 and starts no backend primitive
BadAddressRejected ==
  (ret # NoCall /\ call.f = "GET /memory" /\ ~IsAddress(call.address)) => ret.f = "400"

\* the number a linear literal denotes
LiteralValue(str) ==
  IF StartsWith0x(str) THEN DigitsPrefix(SubSeq(str, 3, Len(str)), 16, 0)
  ELSE DigitsPrefix(str, 10, 0)

\* C26: the linear and the pair of every parsed address agree: a formatted
\* seg:off parses to (seg << 4) + off, and a linear literal L parses to
\* linear L, segment (L >> 4) & 0xFFFF, offset L & 0xF with
\* (segment << 4) + offset = L
PairAndLinearAgree ==
  (ret # NoCall /\ call.f = "GET /memory") =>
    /\ \A s \in Words, o \in Words :
          call.address = formatSegOff(s, o) => ret.address.linear = Num(s * 16 + o)
    /\ (IsHex(call.address) \/ IsDecimal(call.address)) =>
          LET L == LiteralValue(call.address)
              a == ret.address
          IN /\ a.linear = Num(L)
             /\ a.segOff.segment = Num((L \div 16) % 65536)
             /\ a.segOff.offset = Num(L % 16)
             /\ a.segOff.segment.v * 16 + a.segOff.offset.v = L

(* --------------------- util.ts: compareWithGolden ---------------------- *)

Min(a, b) == IF a < b THEN a ELSE b

FirstDiffNone(goldenData, actualData, i, len) == len

\* the loop `for (let i = 0; i < len; i++)`: the first i (from 0) at which the
\* two buffers differ, or len when there is none
RECURSIVE FirstDiff(_, _, _, _)
FirstDiff(goldenData, actualData, i, len) ==
  IF i >= len THEN len
  ELSE IF goldenData[i + 1] # actualData[i + 1] THEN i
  ELSE FirstDiff(goldenData, actualData, i + 1, len)

\* a file is [exists, data]; the empty checksum '' is the empty string <<>>
compareWithGolden(golden, actualData) ==
  IF ~golden.exists
  THEN [match |-> FALSE, goldenChecksum |-> <<>>, actualChecksum |-> sha256(actualData)]
  ELSE LET goldenData == golden.data
           goldenChecksum == sha256(goldenData)
           actualChecksum == sha256(actualData)
           len == Min(Len(goldenData), Len(actualData))
           i == FirstDiff(goldenData, actualData, 0, len)
       IN IF goldenChecksum = actualChecksum
          THEN [match |-> TRUE, goldenChecksum |-> goldenChecksum,
                actualChecksum |-> actualChecksum]
          ELSE IF i < len
          THEN [match |-> FALSE, goldenChecksum |-> goldenChecksum,
                actualChecksum |-> actualChecksum, firstDiffOffset |-> i,
                goldenByte |-> goldenData[i + 1], actualByte |-> actualData[i + 1]]
          ELSE [match |-> FALSE, goldenChecksum |-> goldenChecksum,
                actualChecksum |-> actualChecksum, firstDiffOffset |-> len]

Buffers == UNION {[1..k -> Bytes] : k \in 0..MaxBytes}
Missing == [exists |-> FALSE, data |-> <<>>]
Files == {Missing} \cup {[exists |-> TRUE, data |-> d] : d \in Buffers}

CompareWithGolden ==
  /\ call.f = "compareWithGolden" /\ ret = NoCall
  /\ ret' = compareWithGolden(call.golden, call.actual)
  /\ UNCHANGED <<backendVars, watchVars, wsVars, cap, lifeVars, holderVars, stoppedBy, thrown,
                 gdbcVars, channelVars, call, clientVars>>

NextCompare == CompareWithGolden

SpecCompare ==
  /\ Called({[f |-> "compareWithGolden", golden |-> g, actual |-> a] : g \in Files, a \in Buffers})
  /\ [][NextCompare]_vars

Returned(f) == call.f = f /\ ret # NoCall

\* the smallest index at which the buffers differ is i, and the result
\* reports it with the byte each buffer has there
ReportsDifferenceAt(i) ==
  /\ i < Len(call.golden.data) /\ i < Len(call.actual)
  /\ call.golden.data[i + 1] # call.actual[i + 1]
  /\ \A j \in 0..(i - 1) : call.golden.data[j + 1] = call.actual[j + 1]
  /\ "firstDiffOffset" \in DOMAIN ret /\ ret.firstDiffOffset = i
  /\ "goldenByte" \in DOMAIN ret /\ ret.goldenByte = call.golden.data[i + 1]
  /\ "actualByte" \in DOMAIN ret /\ ret.actualByte = call.actual[i + 1]

ReportsBothHashes ==
  ret.goldenChecksum = sha256(call.golden.data) /\ ret.actualChecksum = sha256(call.actual)

IsPrefix(a, b) == Len(a) <= Len(b) /\ SubSeq(b, 1, Len(a)) = a

\* C23 as stated: match exactly for identical bytes; for different bytes of
\* equal length the smallest differing index with both bytes; for different
\* lengths a first-difference offset equal to the shorter length; both hashes
\* whenever the golden file exists
CompareAsStated ==
  Returned("compareWithGolden") =>
    LET g == call.golden.data
        a == call.actual
    IN /\ ret.match <=> (call.golden.exists /\ g = a)
       /\ call.golden.exists => ReportsBothHashes
       /\ (call.golden.exists /\ g # a /\ Len(g) = Len(a)) =>
             \E i \in 0..(Len(g) - 1) : ReportsDifferenceAt(i)
       /\ (call.golden.exists /\ Len(g) # Len(a)) =>
             "firstDiffOffset" \in DOMAIN ret /\ ret.firstDiffOffset = Min(Len(g), Len(a))

\* C23: match exactly for identical bytes; both hashes whenever the golden
\* file exists; for buffers that differ at an index both have, the smallest
\* such index with both bytes, whatever the lengths; and the shorter length,
\* without byte values, when one buffer is a proper prefix of the other
CompareFirstDifference ==
  Returned("compareWithGolden") =>
    LET g == call.golden.data
        a == call.actual
        len == Min(Len(g), Len(a))
    IN /\ ret.match <=> (call.golden.exists /\ g = a)
       /\ call.golden.exists => ReportsBothHashes
       /\ (call.golden.exists /\ SubSeq(g, 1, len) # SubSeq(a, 1, len)) =>
             \E i \in 0..(len - 1) : ReportsDifferenceAt(i)
       /\ (call.golden.exists /\ g # a /\ (IsPrefix(g, a) \/ IsPrefix(a, g))) =>
             /\ "firstDiffOffset" \in DOMAIN ret /\ ret.firstDiffOffset = len
             /\ "goldenByte" \notin DOMAIN ret /\ "actualByte" \notin DOMAIN ret

\* buffers of different lengths that differ before the shorter one ends have
\* been compared
CompareFirstDifferenceWitness ==
  /\ Returned("compareWithGolden") /\ call.golden.exists
  /\ Len(call.golden.data) # Len(call.actual)
  /\ \E i \in 0..(Min(Len(call.golden.data), Len(call.actual)) - 1) : ReportsDifferenceAt(i)

(* ------------------------ POST /golden/compare ------------------------- *)

\* the artifacts of a capture result: the framebuffer, the screenshot and one
\* extra memory dump
Artifacts == {"framebuffer", "screenshot", "dump"}

\* the artifacts the route compares: the screenshot only when its golden file exists
Compared(art) ==
  {n \in Artifacts : art[n].captured /\ (n = "screenshot" => art[n].golden.exists)}

\* the route's reply once backend.capture has returned
goldenCompare(art) ==
  LET comparisons == [n \in Compared(art) |-> compareWithGolden(art[n].golden, art[n].actual)]
  IN [match |-> \A n \in Compared(art) : comparisons[n].match, comparisons |-> comparisons]

GoldenFiles == {Missing, [exists |-> TRUE, data |-> <<0>>]}
Captured == [captured : BOOLEAN, golden : GoldenFiles, actual : {<<0>>, <<1>>}]

GoldenCompare ==
  /\ call.f = "POST /golden/compare" /\ ret = NoCall
  /\ holder # 0
  /\ ret' = goldenCompare(call.art)
  /\ UNCHANGED <<backendVars, watchVars, wsVars, cap, lifeVars, holderVars, stoppedBy, thrown,
                 gdbcVars, channelVars, call, clientVars>>

NextGolden == GoldenCompare

SpecGolden ==
  /\ Called({[f |-> "POST /golden/compare", art |-> a] : a \in [Artifacts -> Captured]})
  /\ [][NextGolden]_vars

\* C24: every captured artifact whose golden file is missing is reported as a
\* mismatch with an empty goldenChecksum and the actual hash, and the overall
\* result is match = false
MissingGoldenMismatch ==
  Returned("POST /golden/compare") =>
    \A n \in Artifacts : (call.art[n].captured /\ ~call.art[n].golden.exists) =>
       /\ ~ret.match
       /\ n \in DOMAIN ret.comparisons
       /\ ~ret.comparisons[n].match
       /\ ret.comparisons[n].goldenChecksum = <<>>
       /\ ret.comparisons[n].actualChecksum = sha256(call.art[n].actual)

(* ------------- CapturePipeline.run: artifacts and checksums ------------ *)

\* writeFileSync(path, data) and checksums.set(key, sha256(data)); a write
\* with key <<>> sets no checksum
Write(key, path, data) == [key |-> key, path |-> path, data |-> data]

\* the writes of one run with prefix `p`, in program order
Writes(request) ==
  (IF request.captureFramebuffer
   THEN <<Write("framebuffer", "p_framebuffer.bin", request.framebuffer)>> ELSE <<>>)
  \o (IF request.captureScreenshot
      THEN <<Write("screenshot", "p_screenshot.ppm", request.screenshot)>> ELSE <<>>)
  \o [i \in DOMAIN request.memoryRanges |->
        Write(request.memoryRanges[i].filename, request.memoryRanges[i].filename,
              request.memoryRanges[i].data)]

\* the capture directory and the checksum map after the writes ws
RECURSIVE Written(_, _, _)
Written(ws, files, checksums) ==
  IF ws = <<>> THEN [files |-> files, checksums |-> checksums]
  ELSE Written(Tail(ws), (Head(ws).path :> Head(ws).data) @@ files,
               (Head(ws).key :> sha256(Head(ws).data)) @@ checksums)

Filenames == {"a.bin", "framebuffer", "p_framebuffer.bin"}
Ranges == [filename : Filenames, data : Bytes]
\* a request together with the bytes the backend returns for each read
ArtifactRequests ==
  [captureFramebuffer : BOOLEAN, captureScreenshot : BOOLEAN,
   framebuffer : Bytes, screenshot : Bytes,
   memoryRanges : UNION {[1..k -> Ranges] : k \in 0..MaxRanges}]

CaptureArtifacts ==
  /\ call.f = "CapturePipeline.run" /\ ret = NoCall
  /\ ret' = Written(Writes(call.request), <<>>, <<>>)
  /\ UNCHANGED <<backendVars, watchVars, wsVars, cap, lifeVars, holderVars, stoppedBy, thrown,
                 gdbcVars, channelVars, call, clientVars>>

NextArtifacts == CaptureArtifacts

SpecArtifacts ==
  /\ Called({[f |-> "CapturePipeline.run", request |-> r] : r \in ArtifactRequests})
  /\ [][NextArtifacts]_vars

\* C22: when the capture returns, the checksum entry of every artifact is
\* the hash of the bytes in the file the artifact was written to
ChecksumsMatchFiles ==
  Returned("CapturePipeline.run") =>
    \A i \in DOMAIN Writes(call.request) :
       LET w == Writes(call.request)[i]
       IN ret.checksums[w.key] = sha256(ret.files[w.path])

(* ---------------------- GdbClient.readMemory --------------------------- *)

RemainingWhole(length, offset) == CHUNK_SIZE

\* const remaining = Math.min(CHUNK_SIZE, length - offset)
Remaining(length, offset) == Min(CHUNK_SIZE, length - offset)

\* the request `m<addr>,<len>`; its reply stands for the len bytes at addr
Request(addr, len) == [addr |-> addr, len |-> len]

Addresses == {0, 1024, 655360}
Lengths == {0, 1, CHUNK_SIZE - 1, CHUNK_SIZE, CHUNK_SIZE + 1, 2 * CHUNK_SIZE,
            2 * CHUNK_SIZE + 1, MaxLength}

\* readMemory(addr, length) is entered: result = [], offset = 0
ReadMemoryEnter ==
  /\ call.f = "GdbClient.readMemory" /\ ret = NoCall
  /\ ret' = [f |-> "loop", offset |-> 0, requests |-> <<>>, result |-> <<>>]
  /\ UNCHANGED <<backendVars, watchVars, wsVars, cap, lifeVars, holderVars, stoppedBy, thrown,
                 gdbcVars, channelVars, call, clientVars>>

\* one turn of the loop: the command is sent and its reply awaited; a reply
\* that starts with E makes readMemory throw
ReadMemoryChunk(ok) ==
  /\ call.f = "GdbClient.readMemory" /\ ret.f = "loop"
  /\ ret.offset < call.length
  /\ LET request == Request(call.addr + ret.offset, Remaining(call.length, ret.offset))
     IN ret' = IF ok
               THEN [ret EXCEPT !.requests = Append(@, request),
                                !.result = Append(@, request),
                                !.offset = @ + CHUNK_SIZE]
               ELSE [ret EXCEPT !.f = "thrown", !.requests = Append(@, request)]
  /\ UNCHANGED <<backendVars, watchVars, wsVars, cap, lifeVars, holderVars, stoppedBy, thrown,
                 gdbcVars, channelVars, call, clientVars>>

\* the loop ends: return Buffer.concat(result)
ReadMemoryReturn ==
  /\ call.f = "GdbClient.readMemory" /\ ret.f = "loop"
  /\ ret.offset >= call.length
  /\ ret' = [ret EXCEPT !.f = "returned"]
  /\ UNCHANGED <<backendVars, watchVars, wsVars, cap, lifeVars, holderVars, stoppedBy, thrown,
                 gdbcVars, channelVars, call, clientVars>>

NextChunks ==
  \/ ReadMemoryEnter
  \/ \E ok \in BOOLEAN : ReadMemoryChunk(ok)
  \/ ReadMemoryReturn

SpecChunks ==
  /\ Called({[f |-> "GdbClient.readMemory", addr |-> a, length |-> n] :
               a \in Addresses, n \in Lengths})
  /\ [][NextChunks]_vars

Ceil(n, d) == (n + d - 1) \div d

\* C27: readMemory(A, N) that returns has issued ceil(N / 4096) requests, the
\* i-th for address A + 4096 i and length min(4096, N - 4096 i), and returns
\* their replies in that order; for N = 0 it issues none and returns nothing
ReadMemoryChunks ==
  (call.f = "GdbClient.readMemory" /\ ret.f = "returned") =>
    /\ Len(ret.requests) = Ceil(call.length, 4096)
    /\ \A i \in 0..(Len(ret.requests) - 1) :
          ret.requests[i + 1] =
            Request(call.addr + 4096 * i, Min(4096, call.length - 4096 * i))
    /\ ret.result = ret.requests
    /\ call.length = 0 => ret.requests = <<>> /\ ret.result = <<>>

\* a read that needed a short last chunk after full ones has returned
ReadMemoryChunksWitness ==
  /\ call.f = "GdbClient.readMemory" /\ ret.f = "returned"
  /\ Len(ret.requests) >= 3
  /\ ret.requests[Len(ret.requests)].len < CHUNK_SIZE

(* ------------------ startMemoryWatch: the poll interval ---------------- *)

\* the values a message's intervalMs can have once JSON.parse has run
Number(n) == [t |-> "number", v |-> n]
Undefined == [t |-> "undefined"]
Null == [t |-> "null"]
String(s) == [t |-> "string", s |-> s]

\* ToNumber, which Math.max applies to its arguments; the strings here are
\* made of decimal digits and letters
ToNumber(x) ==
  CASE x.t = "number" -> Num(x.v)
    [] x.t = "undefined" -> NaN
    [] x.t = "null" -> Num(0)
    [] x.t = "string" -> IF x.s = <<>> THEN Num(0)
                         ELSE IF IsDecimal(x.s) THEN Num(DigitsPrefix(x.s, 10, 0))
                         ELSE NaN

\* Math.max: NaN when either argument is
MathMax(a, b) == IF a.nan \/ b.nan THEN NaN ELSE Num(Max(a.v, b.v))

\* const effectiveIntervalMs = Math.max(intervalMs, MIN_INTERVAL_MS)
effectiveIntervalMs(intervalMs) == MathMax(ToNumber(intervalMs), Num(MIN_INTERVAL_MS))

\* the period of setInterval(callback, after): a delay that is not a number
\* between 1 and 2^31 - 1 is replaced by 1
Period(after) == IF ~after.nan /\ after.v >= 1 /\ after.v <= 2147483647 THEN after.v ELSE 1

IntervalValues ==
  {Number(n) : n \in (0 - MaxInterval)..MaxInterval}
  \cup {Undefined, Null, String(<<>>), String(<<"5", "0">>), String(<<"a">>)}

StartMemoryWatchTimer ==
  /\ call.f = "startMemoryWatch" /\ ret = NoCall
  /\ ret' = [f |-> "setInterval",
             intervalMs |-> effectiveIntervalMs(call.intervalMs),
             period |-> Period(effectiveIntervalMs(call.intervalMs))]
  /\ UNCHANGED <<backendVars, watchVars, wsVars, cap, lifeVars, holderVars, stoppedBy, thrown,
                 gdbcVars, channelVars, call, clientVars>>

NextInterval == StartMemoryWatchTimer

SpecInterval ==
  /\ Called({[f |-> "startMemoryWatch", intervalMs |-> v] : v \in IntervalValues})
  /\ [][NextInterval]_vars

\* C28: whatever intervalMs a memory:watch message carries, the period of the
\* watch's timer is at least 200 ms
IntervalClamped ==
  Returned("startMemoryWatch") => ret.period >= 200

(* ---------------- primitives that wait on a client --------------------- *)

NextHang ==
  \/ \E k \in {"screenshot", "readRegisters"} : HttpCall(k)
  \/ StartOperation
  \/ \E o \in DOMAIN ops, ok \in BOOLEAN : IoResponse(o, ok)
  \/ HttpContinuation
  \/ Disconnect

\* a receive on the GdbClient ends with a packet or with its timer
GdbSettles ==
  \E o \in DOMAIN ops, ok \in BOOLEAN : Client(ops[o].kind) = "gdb" /\ IoResponse(o, ok)

\* microtasks run, and recvPacket's timer fires; QmpClient.execute sets no
\* timer, so nothing obliges an answer to a QMP command to come
SpecHang ==
  /\ Init /\ [][NextHang]_vars
  /\ WF_vars(StartOperation) /\ WF_vars(HttpContinuation) /\ WF_vars(GdbSettles)

\* C30: every primitive submitted to the QemuBackend eventually returns or throws
EveryPrimitiveSettles ==
  \A o \in 1..MaxOps :
     [](o \in DOMAIN ops => <>(o \in DOMAIN ops /\ ops[o].st = "done"))

(* ----------------------- capture runs and the guest --------------------- *)

\* the capture run has returned its result or has thrown
RunFinished == cap.pc \in {"done", "failed"}

\* the primitive the capture run called last
LastCaptureOp ==
  LET mine == {o \in DOMAIN ops : ops[o].owner = Capture}
  IN IF mine = {} THEN 0 ELSE CHOOSE o \in mine : \A p \in mine : p <= o

\* C31: when a capture run that registered a breakpoint finishes, by returning
\* or by throwing, the breakpoint is no longer registered and the last thing
\* the run did was to resume the guest
BreakpointCleanedUp ==
  (RunFinished /\ cap.bp # 0) =>
     /\ cap.bp \notin breakpoints
     /\ ops[LastCaptureOp].kind = "resume"
     /\ ops[LastCaptureOp].st = "done" /\ ops[LastCaptureOp].ok
     /\ cap.pc = "done"

(* --------------- capture runs and the other callers -------------------- *)

NextConsistent ==
  \/ \E req \in CaptureRequests : CaptureStart(req)
  \/ CaptureContinuation
  \/ \E ok \in BOOLEAN : CaptureStop(ok)
  \/ \E k \in {"resume", "writeMemory"} : HttpCall(k)
  \/ HttpContinuation
  \/ StartOperation
  \/ \E o \in DOMAIN ops, ok \in BOOLEAN : IoResponse(o, ok)

SpecConsistent == Init /\ [][NextConsistent]_vars

\* the run is past its pause, or past the stop at its breakpoint, and has not
\* reached its final resume
Reading == cap.pc \in {"removeBreakpoint", "framebuffer", "screenshot", "registers"}

\* C32: while a capture run is between its pause (or breakpoint stop) and its
\* final resume, no primitive of another caller is executing on the backend
NoForeignPrimitive ==
  Reading => \A o \in DOMAIN ops : ops[o].st = "running" => ops[o].owner = Capture

(* ------------------- polls of a stopped registration ------------------- *)

\* C33: a poll that returns after its registration was stopped by
\* memory:unwatch, or replaced by a new memory:watch of the same id, sends no frame
StoppedWatchIsSilent ==
  [][\A g \in DOMAIN watchObj :
       (PollResuming(g) /\ watches[watchObj[g].id] # g) => frames' = frames]_vars

(* ------------------ overlapping backend-select requests ---------------- *)

\* the backends the factory has returned
FactoryMade == DOMAIN backends \ {1}

\* C34: every backend the factory has created is the one in the holder or has
\* been shut down, and a backend of the factory that is in the holder has not
\* been shut down
CreatedHeldOrShutDown ==
  /\ \A b \in FactoryMade : b = holder \/ backends[b].down = "finished"
  /\ holder \in FactoryMade => backends[holder].down = "no"

(* --------------------------- launch ends ------------------------------- *)

NextLaunch ==
  \/ \E withQmp \in BOOLEAN : Launch(withQmp)
  \/ \E ok \in BOOLEAN : LaunchSpawned(ok)
  \/ \E ok \in BOOLEAN : ConnectAttempt(ok)
  \/ Disconnect

\* the launcher's spawn settles (the child's 'spawn' or 'error' event)
SpawnSettles == \E ok \in BOOLEAN : LaunchSpawned(ok)

\* GdbClient.connect settles: the socket's 'connect' or 'error' event
GdbConnectSettles == \E ok \in BOOLEAN : life.pc = "gdb" /\ ConnectAttempt(ok)

\* QmpClient.connect resolves only after the greeting and the answer to
\* qmp_capabilities, and sets no timer: nothing obliges an attempt on the QMP
\* socket to settle
SpecLaunch ==
  /\ Init /\ [][NextLaunch]_vars
  /\ WF_vars(SpawnSettles) /\ WF_vars(GdbConnectSettles)

Launching == life.pc \in {"spawn", "qmp", "gdb"}

\* C35: every launch ends, with status running or with a rejection
LaunchTerminates == Launching ~> ~Launching

(* -------------------------- shutdown ends ------------------------------ *)

NextShutdown ==
  \/ Shutdown
  \/ ShutdownFinish(TRUE)
  \/ Disconnect
  \/ \E k \in {"screenshot", "readRegisters"} : HttpCall(k)
  \/ StartOperation
  \/ \E o \in DOMAIN ops, ok \in BOOLEAN : IoResponse(o, ok)
  \/ HttpContinuation

\* microtasks run and recvPacket's timer fires; QmpClient.quit is an execute,
\* which sets no timer, so nothing obliges the answer to quit to come
SpecShutdown ==
  /\ Init /\ [][NextShutdown]_vars
  /\ WF_vars(StartOperation) /\ WF_vars(HttpContinuation) /\ WF_vars(GdbSettles)

\* both clients are closed, the status is disconnected and the child is killed
ShutDown == ~qmp /\ ~gdb /\ currentStatus = "disconnected" /\ ~launcher

\* C36: a shutdown that has sent quit goes on to close both clients, set the
\* status to disconnected and kill the child, and returns, whatever becomes of
\* the quit request
ShutdownBestEffort == (life.quit # "none") ~> (life.quit = "none" /\ ShutDown)

(* ----------------------------- QmpClient ------------------------------- *)

MaxExecutes == 2
MaxObjects == 3

\* an object QEMU sends: an event, or the answer (return or error) to the
\* n-th request it received
QmpObject(t, n) == [t |-> t, n |-> n]
NoObject == QmpObject("none", 0)

\* 'return' in resp || 'error' in resp
Decides(obj) == obj.t \in {"return", "error"}

\* tryParsePending: while a resolver is pending and the buffer is not empty,
\* parse the first object and hand it to the first resolver; res collects the
\* resolvers called, in order
RECURSIVE tryParsePending(_, _, _)
tryParsePending(buf, pend, res) ==
  IF pend = <<>> \/ buf = <<>>
  THEN [buffer |-> buf, pendingResolves |-> pend, resolved |-> res]
  ELSE tryParsePending(Tail(buf), Tail(pend), Append(res, [e |-> Head(pend), obj |-> Head(buf)]))

\* the execute calls after the resolvers in res were called
Resolved(ex, res) ==
  [e \in DOMAIN ex |->
     IF \E i \in DOMAIN res : res[i].e = e
     THEN [ex[e] EXCEPT !.got = res[CHOOSE i \in DOMAIN res : res[i].e = e].obj]
     ELSE ex[e]]

\* the continuations of the awaits on the promises resolved, in order
ResolvedJobs(res) == [i \in DOMAIN res |-> [t |-> "execute", op |-> res[i].e]]

Objects(res) == [i \in DOMAIN res |-> res[i].obj]

\* waitForJson called by execute e: push the resolver, then tryParsePending
waitForJson(ex, e, rest) ==
  LET r == tryParsePending(qmpBuffer, Append(pendingResolves, e), <<>>)
  IN /\ qmpBuffer' = r.buffer
     /\ pendingResolves' = r.pendingResolves
     /\ executes' = Resolved(ex, r.resolved)
     /\ parsed' = parsed \o Objects(r.resolved)
     /\ micro' = rest \o ResolvedJobs(r.resolved)

QmpFrame ==
  /\ UNCHANGED <<qmp, gdb, currentStatus, breakpoints, nextBpId, operationQueue, released,
                 ops, events, gdbRecv, mem>>
  /\ UNCHANGED <<watchVars, wsVars, cap, lifeVars, holderVars, stoppedBy, thrown,
                 gdbcVars, channelVars, pureVars>>

Undecided == {e \in DOMAIN executes : executes[e].st # "done"}

\* execute(command) up to its first `await this.waitForJson()`
QmpExecute ==
  /\ micro = <<>>
  /\ Len(executes) < MaxExecutes
  /\ LET e == Len(executes) + 1
     IN waitForJson(Append(executes, [st |-> "waiting", sentAt |-> Len(parsed),
                                      alone |-> Undecided = {}, got |-> NoObject]),
                    e, micro)
  /\ UNCHANGED <<emitted, wsmVars, sessions, streamVars>>
  /\ QmpFrame

Received == Len(parsed) + Len(qmpBuffer)
Answers == Cardinality({i \in DOMAIN parsed : Decides(parsed[i])})
             + Cardinality({i \in DOMAIN qmpBuffer : Decides(qmpBuffer[i])})

\* what QEMU can send next: an event, or the answer to the oldest request it
\* has not answered
Sendable ==
  {QmpObject("event", Received + 1)}
    \cup (IF Answers < Len(executes)
          THEN {QmpObject(t, Answers + 1) : t \in {"return", "error"}}
          ELSE {})

\* the socket's 'data' handler, for a chunk that holds one object
QmpData(obj) ==
  /\ micro = <<>>
  /\ Received < MaxObjects
  /\ obj \in Sendable
  /\ LET r == tryParsePending(Append(qmpBuffer, obj), pendingResolves, <<>>)
     IN /\ qmpBuffer' = r.buffer
        /\ pendingResolves' = r.pendingResolves
        /\ executes' = Resolved(executes, r.resolved)
        /\ parsed' = parsed \o Objects(r.resolved)
        /\ micro' = ResolvedJobs(r.resolved)
  /\ UNCHANGED <<emitted, wsmVars, sessions, streamVars>>
  /\ QmpFrame

\* execute after `await this.waitForJson()`: return, throw, or emit the
\* object as an event and wait again
QmpResume ==
  /\ micro # <<>> /\ Head(micro).t = "execute"
  /\ LET e == Head(micro).op
         resp == executes[e].got
     IN IF Decides(resp)
        THEN /\ executes' = [executes EXCEPT ![e].st = "done"]
             /\ micro' = Tail(micro)
             /\ UNCHANGED <<qmpBuffer, pendingResolves, emitted, parsed>>
        ELSE /\ emitted' = Append(emitted, resp)
             /\ waitForJson(executes, e, Tail(micro))
  /\ UNCHANGED <<wsmVars, sessions, streamVars>>
  /\ QmpFrame

NextQmp ==
  \/ QmpExecute
  \/ \E obj \in Sendable : QmpData(obj)
  \/ QmpResume

SpecQmp == Init /\ [][NextQmp]_vars

\* the first object carrying return or error that was parsed after execute e
\* sent its request (0: none yet)
FirstDeciding(e) ==
  LET later == {i \in DOMAIN parsed : i > executes[e].sentAt /\ Decides(parsed[i])}
  IN IF later = {} THEN 0 ELSE CHOOSE i \in later : \A j \in later : i <= j

\* the objects of s that are events, in order
EventsOf(s) == SelectSeq(s, LAMBDA obj : ~Decides(obj))

\* the events emitted are the events parsed so far, each once and in order,
\* but for those handed to an execute that has not resumed yet
EventsInOrder ==
  \E n \in 0..Len(EventsOf(parsed)) : emitted = SubSeq(EventsOf(parsed), 1, n)

\* C37: an execute call whose request was sent while no other call was
\* undecided is decided by the first object carrying return or error that was
\* parsed after its request was sent; no call is decided by an event, and the
\* events are emitted once each in arrival order
DecidedByFirstAnswer ==
  /\ \A e \in DOMAIN executes :
       (executes[e].st = "done" /\ executes[e].alone) =>
          /\ FirstDeciding(e) # 0
          /\ executes[e].got = parsed[FirstDeciding(e)]
  /\ \A e \in DOMAIN executes : executes[e].st = "done" => Decides(executes[e].got)
  /\ EventsInOrder

(* ------------------------ WsManager (browser) -------------------------- *)

MaxFrames == 4

MESSAGES_WITH_BINARY == {"memory:update", "memory:data", "screenshot:data"}

\* the frames a WebSocket can deliver: text that parses to a message of some
\* type, with or without a size member, text that does not parse (type ""),
\* and binary frames
JsonFrame(type, size, n) == [f |-> "json", type |-> type, size |-> size, n |-> n]
BinaryFrame(n) == [f |-> "binary", type |-> "", size |-> FALSE, n |-> n]
ReceivedFrames(n) ==
  {JsonFrame(type, size, n) : type \in {"memory:update", "status", ""}, size \in BOOLEAN}
    \cup {BinaryFrame(n)}

WsmFrame ==
  /\ UNCHANGED <<backendVars, watchVars, wsVars, cap, lifeVars, holderVars, stoppedBy, thrown,
                 gdbcVars, channelVars, pureVars, qmpcVars>>

\* handleJsonFrame(raw)
handleJsonFrame(msg) ==
  IF msg.type = ""
  THEN UNCHANGED <<frameState, dispatched>>                     \* JSON.parse throws
  ELSE IF msg.type \in MESSAGES_WITH_BINARY /\ msg.size
  THEN /\ frameState' = [phase |-> "AWAITING_BINARY", metadata |-> msg]
       /\ UNCHANGED dispatched
  ELSE /\ dispatched' = Append(dispatched, [msg |-> msg, binary |-> NoFrame])
       /\ UNCHANGED frameState

\* handleBinaryFrame(data)
handleBinaryFrame(data) ==
  IF frameState.phase = "AWAITING_BINARY"
  THEN /\ frameState' = [phase |-> "IDLE", metadata |-> NoFrame]
       /\ dispatched' = Append(dispatched, [msg |-> frameState.metadata, binary |-> data])
  ELSE UNCHANGED <<frameState, dispatched>>

\* ws.onmessage
OnMessage(frame) ==
  /\ Len(seen) < MaxFrames
  /\ frame \in ReceivedFrames(Len(seen) + 1)
  /\ seen' = Append(seen, frame)
  /\ IF frame.f = "binary" THEN handleBinaryFrame(frame) ELSE handleJsonFrame(frame)
  /\ UNCHANGED <<qmpcVars, sessions, streamVars>>
  /\ WsmFrame

\* ws.onclose
OnClose ==
  /\ frameState.phase = "AWAITING_BINARY"
  /\ frameState' = [phase |-> "IDLE", metadata |-> NoFrame]
  /\ UNCHANGED <<dispatched, seen, qmpcVars, sessions, streamVars>>
  /\ WsmFrame

NextWsManager ==
  \/ \E frame \in ReceivedFrames(Len(seen) + 1) : OnMessage(frame)
  \/ OnClose

SpecWsManager == Init /\ [][NextWsManager]_vars

\* the frame received in this step
Arriving == seen'[Len(seen')]

\* the most recently received JSON frame of a binary-bearing type
LastBearing ==
  LET bearing == {i \in DOMAIN seen : seen[i].f = "json" /\ seen[i].type \in MESSAGES_WITH_BINARY}
  IN IF bearing = {} THEN NoFrame ELSE seen[CHOOSE i \in bearing : \A j \in bearing : j <= i]

\* C38: a binary frame received while IDLE causes no dispatch; a binary frame
\* received while AWAITING_BINARY is dispatched once, with the metadata of the
\* most recently received binary-bearing JSON frame, and leaves the state
\* IDLE; no message of a binary-bearing type is dispatched without a payload
ClientPairsFrames ==
  [][/\ (seen' # seen /\ Arriving.f = "binary" /\ frameState.phase = "IDLE") =>
          dispatched' = dispatched
     /\ (seen' # seen /\ Arriving.f = "binary" /\ frameState.phase = "AWAITING_BINARY") =>
          /\ dispatched' = Append(dispatched, [msg |-> LastBearing, binary |-> Arriving])
          /\ frameState'.phase = "IDLE"
     /\ \A i \in DOMAIN dispatched' :
          dispatched'[i].msg.type \in MESSAGES_WITH_BINARY => dispatched'[i].binary # NoFrame]_vars

(* --------------------------- DosboxSession ----------------------------- *)

MaxSessions == 3

\* the operations of DosboxBackend that launch a session and wait for it
SessionKinds == {"readMemory", "readRegisters", "sendKeys"}

ExpiredIdle(s) == [s EXCEPT !.timer = FALSE]

\* the timer's callback: this.process.kill()
Expired(s) == [s EXCEPT !.timer = FALSE, !.killed = TRUE]

\* the 'close' handler, clearTimeout and resolve, and the operation's return:
\* readMemory throws when the child left no dump file
ChildClosed(s, dumped) ==
  [s EXCEPT !.child = "closed", !.timer = FALSE,
            !.op = IF s.kind = "readMemory" /\ ~dumped THEN "thrown" ELSE "returned"]

SessionFrame ==
  /\ UNCHANGED <<backendVars, watchVars, wsVars, cap, lifeVars, holderVars, stoppedBy, thrown,
                 gdbcVars, channelVars, pureVars, qmpcVars, wsmVars, streamVars>>

\* session.launch({wait: true, timeout}): spawn the child, set the timer
SessionLaunch(kind) ==
  /\ Len(sessions) < MaxSessions
  /\ sessions' = Append(sessions, [kind |-> kind, child |-> "running", timer |-> TRUE,
                                   killed |-> FALSE, op |-> "waiting"])
  /\ SessionFrame

\* the timeout of session i expires
TimerExpires(i) ==
  /\ i \in DOMAIN sessions /\ sessions[i].timer
  /\ sessions' = [sessions EXCEPT ![i] = Expired(sessions[i])]
  /\ SessionFrame

\* the child of session i has exited and its pipes are closed
ChildClose(i, dumped) ==
  /\ i \in DOMAIN sessions /\ sessions[i].child = "running"
  /\ sessions' = [sessions EXCEPT ![i] = ChildClosed(sessions[i], dumped)]
  /\ SessionFrame

NextSession ==
  \/ \E kind \in SessionKinds : SessionLaunch(kind)
  \/ \E i \in 1..MaxSessions : TimerExpires(i)
  \/ \E i \in 1..MaxSessions, dumped \in BOOLEAN : ChildClose(i, dumped)

\* a child that was sent the signal exits
KilledChildCloses(i) ==
  \E dumped \in BOOLEAN : i \in DOMAIN sessions /\ sessions[i].killed /\ ChildClose(i, dumped)

\* timers fire, and a child that is sent SIGTERM exits; nothing obliges a
\* child that is left alone to exit
SpecSession ==
  /\ Init /\ [][NextSession]_vars
  /\ \A i \in 1..MaxSessions : WF_vars(TimerExpires(i)) /\ WF_vars(KilledChildCloses(i))

MaxPackets == 2
MaxReceives == 2

\* the payloads the stub replies with
Payloads == {<<>>, <<"O", "K">>}

\* `$payload#xx`; the client does not look at the two checksum characters
Packet(payload) == <<"$">> \o payload \o <<"#", "0", "0">>

\* str.indexOf(ch, from), counting from 1; 0: not found
IndexOf(str, ch, from) ==
  LET at == {i \in DOMAIN str : i >= from /\ str[i] = ch}
  IN IF at = {} THEN 0 ELSE CHOOSE i \in at : \A j \in at : i <= j

\* whether tryParse finds a complete packet in str
Complete(str) ==
  LET dollarIdx == IndexOf(str, "$", 1)
      hashIdx == IF dollarIdx = 0 THEN 0 ELSE IndexOf(str, "#", dollarIdx)
  IN hashIdx # 0 /\ hashIdx + 2 <= Len(str)

\* str.substring(dollarIdx + 1, hashIdx)
PayloadOf(str) ==
  SubSeq(str, IndexOf(str, "$", 1) + 1, IndexOf(str, "#", IndexOf(str, "$", 1)) - 1)

\* this.buffer.subarray(hashIdx + 3)
AfterPacket(str) == SubSeq(str, IndexOf(str, "#", IndexOf(str, "$", 1)) + 3, Len(str))

ByteState(b, ls, rs, a) == [bytes |-> b, waiting |-> ls, receives |-> rs, acks |-> a]

\* recvPacket's tryParse for receive r; resolve has no effect on a promise
\* that the timer already rejected
tryParseBytes(g, r) ==
  IF ~Complete(g.bytes)
  THEN [g EXCEPT !.waiting = Append(@, r)]
  ELSE [g EXCEPT !.bytes = AfterPacket(@),
                 !.acks = @ + 1,
                 !.receives[r] = IF @.st = "pending"
                                 THEN [st |-> "resolved", got |-> PayloadOf(g.bytes)] ELSE @]

\* a 'data' event calls the once-listeners in the order they were registered
RECURSIVE EmitBytes(_, _)
EmitBytes(ls, g) == IF ls = <<>> THEN g ELSE EmitBytes(Tail(ls), tryParseBytes(g, Head(ls)))

\* consumePendingAck: a '+' at the head of the buffer is dropped
consumePendingAck(b) == IF b # <<>> /\ Head(b) = "+" THEN Tail(b) ELSE b

ByteApply(g) ==
  /\ bytes' = g.bytes
  /\ waiting' = g.waiting
  /\ receives' = g.receives
  /\ acks' = g.acks

ByteFrame ==
  /\ UNCHANGED <<backendVars, watchVars, wsVars, cap, lifeVars, holderVars, stoppedBy, thrown,
                 gdbcVars, channelVars, pureVars, qmpcVars, wsmVars, sessions>>

\* command(cmd): consumePendingAck, sendPacket, then recvPacket runs tryParse
\* once; the backend's lane admits one command at a time
ByteCommand ==
  /\ Len(receives) < MaxReceives
  /\ \A r \in DOMAIN receives : receives[r].st # "pending"
  /\ ByteApply(tryParseBytes(ByteState(consumePendingAck(bytes), waiting,
                                       Append(receives, [st |-> "pending", got |-> <<>>]), acks),
                             Len(receives) + 1))
  /\ UNCHANGED <<inbound, stubSent>>
  /\ ByteFrame

\* the timer of receive r fires: reject(new TimeoutError(...)); the listener
\* that tryParse registered stays on the socket
ByteTimeout(r) ==
  /\ r \in DOMAIN receives /\ receives[r].st = "pending"
  /\ receives' = [receives EXCEPT ![r].st = "timedout"]
  /\ UNCHANGED <<inbound, bytes, waiting, acks, stubSent>>
  /\ ByteFrame

\* the stub acknowledges a command and writes its reply packet
StubSends(payload) ==
  /\ Len(stubSent) < MaxPackets
  /\ Len(stubSent) < Len(receives)
  /\ inbound' = inbound \o <<"+">> \o Packet(payload)
  /\ stubSent' = Append(stubSent, payload)
  /\ UNCHANGED <<bytes, waiting, receives, acks>>
  /\ ByteFrame

\* a chunk of n bytes arrives: the 'data' listener of connect() appends it to
\* the buffer, then the once-listeners run
Chunk(n) ==
  /\ n \in 1..Len(inbound)
  /\ inbound' = SubSeq(inbound, n + 1, Len(inbound))
  /\ ByteApply(EmitBytes(waiting, ByteState(bytes \o SubSeq(inbound, 1, n), <<>>, receives, acks)))
  /\ UNCHANGED stubSent
  /\ ByteFrame

MaxChunk == 7

NextBytes ==
  \/ ByteCommand
  \/ \E r \in 1..MaxReceives : ByteTimeout(r)
  \/ \E payload \in Payloads : StubSends(payload)
  \/ \E n \in 1..MaxChunk : Chunk(n)

SpecBytes == Init /\ [][NextBytes]_vars

\* the payloads of the complete packets in str, in order: what successive
\* receives return when str has arrived whole
RECURSIVE Whole(_)
Whole(str) == IF Complete(str) THEN <<PayloadOf(str)>> \o Whole(AfterPacket(str)) ELSE <<>>

\* the payloads the receives have returned, in order
Returns ==
  LET got == SelectSeq(receives, LAMBDA r : r.st = "resolved")
  IN [i \in DOMAIN got |-> got[i].got]

\* C40: however the stream is split into chunks, the payloads the receives
\* have returned, followed by those of the packets still in the buffer or on
\* their way, are the payloads the stub wrote, each once and in order, and one
\* '+' was written per payload returned
ChunksAsWhole ==
  /\ Returns \o Whole(bytes \o inbound) = stubSent
  /\ acks = Len(Returns)

====
